---- MODULE Spec2Model ----
(***************************************************************************)
(* State-machine model of the Edge C2 simulator core: the simulation       *)
(* clock, the event engine, the tick orchestrator with its restart         *)
(* handler, and the transport registry.                                    *)
(*                                                                         *)
(* Units.  Wall time and simulation time are integers (one unit = one      *)
(* clock quantum); speeds of entities are in tenths of a knot so that the  *)
(* source's 0.9 x max, 0.5 x max and 4.3 kt are exact; positions are cells *)
(* on a line.                                                              *)
(***************************************************************************)
EXTENDS Integers, Sequences, FiniteSets, TLC

\* ---------------------------------------------------------------- bounds
MaxWall == 2
MaxEvents == 2       \* events in a timeline
MaxOffset == 1       \* largest time_offset of an event
MaxSimTime == 1      \* largest sim_time handed to EventEngine.tick directly
MaxTicks == 2        \* ticks of the simulation loop in one behaviour
MaxResets == 1       \* EventEngine.reset calls in one behaviour
MaxAdapters == 2     \* adapters registered with one TransportRegistry
MaxStoreCalls == 3   \* EntityStore calls in one behaviour
MaxThreadCalls == 2  \* EntityStore calls made by the threads of one behaviour
MaxGetStates == 3    \* get_state calls on an InterceptMovement called on its own
MaxCell == 4         \* the cells an intercept target moves over
MaxChaseHours == 5   \* hours of sim time a pursuit is ticked for
MaxWaypoints == 2    \* waypoints of a route handed to WaypointMovement
MaxFlightTicks == 2  \* AviationSimulator.tick calls in one behaviour
MaxBroadcasts == 1   \* broadcasts started by the clock task and the tick loop together
MaxPushes == 3       \* push calls made on an outbound adapter exercised on its own
MaxRetries == 3      \* largest max_retries a REST adapter is built with

\* The multipliers a caller or a WebSocket client can pass to set_speed:
\* websocket_adapter.py:277-278 forwards float(msg["speed"]) unvalidated.
Multipliers == {-1, 0, 1, 2}

NONE == "None"

\* clock.py:26  _wall_start is None while the clock is stopped
NoWallStart == -1

VARIABLES
    clock,        \* SimulationClock fields: _running, _wall_start, _accumulated_sim, _speed
    monotonic,    \* the value time.monotonic() returns
    objects,      \* the Entity objects, by object identity (mutated in place)
    store,        \* EntityStore._entities: entity_id -> Entity object
    movements,    \* ScenarioState.movements: ordered dict entity_id -> strategy
    engines,      \* the EventEngine objects, by object identity
    last_tick,    \* the latest EventEngine call: its argument and what it returned
    hist,         \* history: firings per event since the last reset, resets so far
    event_engine, \* which EventEngine object run()'s variable and the loop's parameter name
    loop,         \* simulation_loop: where it is, its sim_time, its pushes still to make
    noise_cache,  \* simulation_loop's noise_cache: domain key -> entities it was applied to
    aviation,     \* AviationSimulator fields: _last_tick_time
    nav,          \* one pass of the movement phase at sensor resolution: the entity in
                  \* degrees, its domain's PositionNoise object, the passes made
    listener,     \* a callback registered with EntityStore.on_update: the entities it
                  \* was called with, and the latest store call and its outcome
    threads,      \* the threads calling one EntityStore: its _lock, each thread's
                  \* position in its call, what the update callbacks were called with
    pursuit,      \* one InterceptMovement object called on its own: its fields, the
                  \* states its latest calls returned, what its calls have found
    outbound,     \* one outbound transport adapter on its own (CoTAdapter or
                  \* RESTAdapter): its connection state and what its calls did
    ws,           \* WebSocketAdapter._event_history and _trail_history
    registry,     \* TransportRegistry._transports and the fan-out call in progress
    run           \* run(): its stop event, where it is, the adapters it disconnected

clockVars == <<clock, monotonic>>
worldVars == <<objects, store, movements>>
engineVars == <<engines, last_tick, hist>>
unitVars == <<nav, listener, threads, pursuit, outbound>>
loopVars == <<event_engine, loop, noise_cache, aviation, unitVars, ws>>
vars == <<clock, monotonic, objects, store, movements, engines, last_tick, hist,
          event_engine, loop, noise_cache, aviation, nav, listener, threads, pursuit, outbound, ws, registry, run>>

\* ================================================================ clock.py

\* SimulationClock.__init__ (speed defaults to 1.0, not running)
SimulationClock(speed) ==
    [running |-> FALSE, wall_start |-> NoWallStart, accumulated_sim |-> 0, speed |-> speed]

\* SimulationClock.get_elapsed
get_elapsed(c, now) ==
    IF ~c.running \/ c.wall_start = NoWallStart
    THEN c.accumulated_sim
    ELSE c.accumulated_sim + (now - c.wall_start) * c.speed

\* SimulationClock.get_sim_time, as an offset from start_time
get_sim_time(c, now) == get_elapsed(c, now)

\* SimulationClock.start
start(c, now) ==
    IF c.running THEN c
    ELSE [c EXCEPT !.running = TRUE, !.wall_start = now]

\* mutant: the live delta is dropped instead of folded
pause_unfolded(c, now) ==
    IF ~c.running THEN c
    ELSE [c EXCEPT !.running = FALSE, !.wall_start = NoWallStart]

\* SimulationClock.pause
pause(c, now) ==
    IF ~c.running THEN c
    ELSE [c EXCEPT !.accumulated_sim = get_elapsed(c, now),
                   !.running = FALSE, !.wall_start = NoWallStart]

\* SimulationClock.resume
resume(c, now) ==
    IF c.running THEN c
    ELSE [c EXCEPT !.running = TRUE, !.wall_start = now]

\* SimulationClock.reset
reset(c) ==
    [c EXCEPT !.running = FALSE, !.wall_start = NoWallStart, !.accumulated_sim = 0]

\* mutant: the speed is changed without folding the live delta first
set_speed_unfolded(c, multiplier, now) == [c EXCEPT !.speed = multiplier]

\* SimulationClock.set_speed
set_speed(c, multiplier, now) ==
    IF c.running
    THEN [c EXCEPT !.accumulated_sim = get_elapsed(c, now),
                   !.wall_start = now, !.speed = multiplier]
    ELSE [c EXCEPT !.speed = multiplier]


\* ================================================================ entity.py / loader.py

\* loader.py:31-140  ENTITY_TYPES[type], with "speed_range" in tenths of a knot
ENTITY_TYPES ==
    [ MMEA_PATROL    |-> [domain |-> "MARITIME",  speed_range |-> <<80, 220>>,
                          sidc |-> "SFSP------"],
      SUSPECT_VESSEL |-> [domain |-> "MARITIME",  speed_range |-> <<0, 350>>,
                          sidc |-> "SHSP------"],
      RMP_OFFICER    |-> [domain |-> "PERSONNEL", speed_range |-> <<0, 40>>,
                          sidc |-> "SFGP------"],
      CIVILIAN_LIGHT |-> [domain |-> "AIR",       speed_range |-> <<800, 1400>>,
                          sidc |-> "SNAP------"],
      HOSTILE_VESSEL |-> [domain |-> "MARITIME",  speed_range |-> <<0, 350>>,
                          sidc |-> "SHSP------"],
      RMAF_HELICOPTER |-> [domain |-> "AIR",      speed_range |-> <<0, 1400>>,
                          sidc |-> "SFAP------"],
      RMAF_FIGHTER   |-> [domain |-> "AIR",       speed_range |-> <<2000, 5500>>,
                          sidc |-> "SFAP------"] ]

\* type_def.get("speed_range", (10, 20)) for ENTITY_TYPES.get(entity_type, {})
speed_range(entity_type) ==
    IF entity_type \in DOMAIN ENTITY_TYPES
    THEN ENTITY_TYPES[entity_type].speed_range
    ELSE <<100, 200>>

\* A cell is 5 nm and a time unit 30 min, so a speed of 100 (10 kt) covers
\* one cell per time unit.
CellRate == 100

\* geodesic(a, b) on the line of cells
geodesic(a, b) == IF a >= b THEN a - b ELSE b - a

\* event.destination is None, a dict with "lat"/"lon", or a non-empty dict
\* lacking those keys (event.destination["lat"] then raises KeyError)
NoDest == -1
BadDest == -2

\* event_engine.py:165  the fixed Sandakan port waypoint
Sandakan == 1

\* event_engine.py:130  timedelta(minutes=30)
HalfHour == 1

\* The scenario used throughout: a patrol vessel P on a waypoint route, a
\* suspect vessel T on a waypoint route, and a standby officer G.
ScenarioIds == <<"P", "T", "G">>
EntityIds == {"P", "T", "G"}

\* loader.py:332-342, 359-361  Entity as built by _parse_scenario_entity
LoadedEntities ==
    [ P |-> [entity_id |-> "P", entity_type |-> "MMEA_PATROL", domain |-> "MARITIME",
             status |-> "ACTIVE", position |-> 0, altitude_m |-> 0, speed_knots |-> 100,
             on_ground |-> TRUE, sidc |-> "SFSP------"],
      T |-> [entity_id |-> "T", entity_type |-> "SUSPECT_VESSEL", domain |-> "MARITIME",
             status |-> "ACTIVE", position |-> 5, altitude_m |-> 0, speed_knots |-> 50,
             on_ground |-> TRUE, sidc |-> "SHSP------"],
      G |-> [entity_id |-> "G", entity_type |-> "RMP_OFFICER", domain |-> "PERSONNEL",
             status |-> "IDLE", position |-> 2, altitude_m |-> 0, speed_knots |-> 0,
             on_ground |-> TRUE, sidc |-> "SFGP------"] ]

\* ================================================================ waypoint.py

\* Waypoint(lat, lon, alt_m=0.0, speed_knots, time_offset); altitudes are in
\* thousands of feet
Waypoint(pos, alt_m, speed, offset) ==
    [pos |-> pos, alt_m |-> alt_m, speed_knots |-> speed, time_offset |-> offset]

\* sorted(waypoints, key=lambda w: w.time_offset), a stable sort
RECURSIVE sorted_waypoints(_)
sorted_waypoints(wps) ==
    IF wps = <<>> THEN <<>>
    ELSE LET s == sorted_waypoints(SubSeq(wps, 1, Len(wps) - 1))
             e == wps[Len(wps)]
             k == Cardinality({j \in 1..Len(s) : s[j].time_offset <= e.time_offset})
         IN  SubSeq(s, 1, k) \o <<e>> \o SubSeq(s, k + 1, Len(s))

\* WaypointMovement.__init__
WaypointMovement(waypoints, scenario_start) ==
    [kind |-> "waypoint", waypoints |-> sorted_waypoints(waypoints),
     scenario_start |-> scenario_start]

MovementState(pos, alt_m, speed) == [pos |-> pos, alt_m |-> alt_m, speed_knots |-> speed]

\* the segment search of WaypointMovement.get_state (waypoint.py:135-171)
RECURSIVE waypoint_segment(_, _, _)
waypoint_segment(wps, i, elapsed) ==
    IF i >= Len(wps) THEN MovementState(wps[Len(wps)].pos, wps[Len(wps)].alt_m, 0)
    ELSE LET wp_a == wps[i]
             wp_b == wps[i + 1]
             seg_duration == wp_b.time_offset - wp_a.time_offset
         IN  IF wp_a.time_offset <= elapsed /\ elapsed <= wp_b.time_offset
             THEN IF seg_duration <= 0
                  THEN MovementState(wp_b.pos, wp_b.alt_m, wp_b.speed_knots)
                  ELSE MovementState(
                         wp_a.pos + ((wp_b.pos - wp_a.pos) * (elapsed - wp_a.time_offset))
                                        \div seg_duration,
                         wp_a.alt_m + ((wp_b.alt_m - wp_a.alt_m) * (elapsed - wp_a.time_offset))
                                        \div seg_duration,
                         wp_a.speed_knots
                           + ((wp_b.speed_knots - wp_a.speed_knots)
                                 * (elapsed - wp_a.time_offset)) \div seg_duration)
             ELSE waypoint_segment(wps, i + 1, elapsed)

waypoint_get_state_strict(m, sim_time) ==
    LET elapsed == sim_time - m.scenario_start
        wps == m.waypoints
    IN  IF elapsed < wps[1].time_offset THEN MovementState(wps[1].pos, wps[1].alt_m, 0)
        ELSE IF elapsed > wps[Len(wps)].time_offset
             THEN MovementState(wps[Len(wps)].pos, wps[Len(wps)].alt_m, 0)
             ELSE waypoint_segment(wps, 1, elapsed)

\* WaypointMovement.get_state
waypoint_get_state(m, sim_time) ==
    LET elapsed == sim_time - m.scenario_start
        wps == m.waypoints
    IN  IF elapsed <= wps[1].time_offset THEN MovementState(wps[1].pos, wps[1].alt_m, 0)
        ELSE IF elapsed >= wps[Len(wps)].time_offset
             THEN MovementState(wps[Len(wps)].pos, wps[Len(wps)].alt_m, 0)
             ELSE waypoint_segment(wps, 1, elapsed)

\* WaypointMovement.is_complete
waypoint_is_complete(m, sim_time) ==
    sim_time - m.scenario_start >= m.waypoints[Len(m.waypoints)].time_offset

\* loader.py:348-361  the strategies the loader binds (G is standby: none)
LoadedMovements ==
    << [id |-> "P", m |-> WaypointMovement(<<Waypoint(0, 0, 100, 0), Waypoint(4, 0, 100, 4)>>, 0)],
       [id |-> "T", m |-> WaypointMovement(<<Waypoint(5, 0, 50, 0), Waypoint(6, 0, 50, 2)>>, 0)] >>

\* ---- the movements dict (insertion-ordered, as Python dicts are)
mov_has(movs, id) == \E k \in 1..Len(movs) : movs[k].id = id

mov_get(movs, id) == movs[CHOOSE k \in 1..Len(movs) : movs[k].id = id].m

\* movements[id] = m : replace in place, or append a new key
mov_set(movs, id, m) ==
    IF mov_has(movs, id)
    THEN [k \in 1..Len(movs) |-> IF movs[k].id = id THEN [id |-> id, m |-> m] ELSE movs[k]]
    ELSE Append(movs, [id |-> id, m |-> m])

\* del movements[id]
mov_del(movs, id) == SelectSeq(movs, LAMBDA b : b.id # id)

\* ================================================================ intercept.py

\* intercept.py:34  intercept_radius_m = 500 m is less than one cell
intercept_radius == 0

NoPos == -1
NoTime == -1000

\* InterceptMovement.__init__
InterceptMovement(entity_speed_knots, target_entity_id, pursuer_entity_id, min_speed_knots) ==
    [kind |-> "intercept", speed |-> entity_speed_knots, target_id |-> target_entity_id,
     pursuer_id |-> pursuer_entity_id, min_speed |-> min_speed_knots,
     intercepted |-> FALSE, last_pos |-> NoPos, last_alt |-> 0,
     last_sim_time |-> NoTime,
     orbit_center |-> NoPos]

\* EntityStore.get_entity: the object bound to the id, or None
get_entity(st, entity_id) == IF entity_id \in DOMAIN st THEN st[entity_id] ELSE NONE

\* upsert_entity that binds the object under its own identity
upsert_entity_by_object(st, objs, ref) ==
    [id \in (DOMAIN st) \cup {ref} |-> IF id = ref THEN ref ELSE st[id]]

\* EntityStore.upsert_entity: _entities[entity.entity_id] = entity
upsert_entity(st, objs, ref) ==
    [id \in (DOMAIN st) \cup {objs[ref].entity_id} |->
        IF id = objs[ref].entity_id THEN ref ELSE st[id]]

\* the orbit centre is set again on every call without a target
latch_center_always(orbit_center, p) == p

\* intercept.py:132-134  the orbit centre is set while it is None
latch_center(orbit_center, p) == IF orbit_center = NoPos THEN p ELSE orbit_center

\* the time since the scenario's first time unit instead of the last call
dt_since_start(last_sim_time, sim_time) == sim_time + 1

\* intercept.py:65-68, 198-201  dt_s, 0 on the first call
dt_since(last_sim_time, sim_time) ==
    IF last_sim_time # NoTime THEN sim_time - last_sim_time ELSE 0

\* InterceptMovement.get_state: returns the new strategy object and the state.
\* On the line of cells the lead-pursuit aim point lies on the target's side,
\* and the 3 km orbit is smaller than a cell.
intercept_get_state(m, st, objs, sim_time) ==
    LET target == get_entity(st, m.target_id)
        pursuer == IF m.pursuer_id # NONE THEN get_entity(st, m.pursuer_id) ELSE NONE
        known == pursuer # NONE \/ m.last_pos # NoPos
        p == IF pursuer # NONE THEN objs[pursuer].position ELSE m.last_pos
        p_alt == IF pursuer # NONE THEN objs[pursuer].altitude_m ELSE m.last_alt
        dt_s == dt_since(m.last_sim_time, sim_time)
    IN  IF ~known THEN [m |-> m, state |-> MovementState(0, 0, 0)]
        ELSE IF target = NONE
        THEN IF m.min_speed > 0
             THEN [m |-> [m EXCEPT !.orbit_center = latch_center(@, p),
                                   !.last_pos = p, !.last_alt = p_alt,
                                   !.last_sim_time = sim_time],
                   state |-> MovementState(p, p_alt, m.min_speed)]
             ELSE [m |-> [m EXCEPT !.last_pos = p], state |-> MovementState(p, p_alt, 0)]
        ELSE LET t == objs[target].position
                 dist_m == geodesic(p, t)
             IN  IF dist_m <= intercept_radius
                 THEN IF m.min_speed > 0
                      THEN [m |-> [m EXCEPT !.intercepted = TRUE, !.last_pos = p,
                                            !.last_alt = p_alt,
                                            !.last_sim_time = sim_time],
                            state |-> MovementState(p, p_alt, m.min_speed)]
                      ELSE [m |-> [m EXCEPT !.intercepted = TRUE, !.last_pos = p,
                                            !.last_alt = p_alt,
                                            !.last_sim_time = sim_time],
                            state |-> MovementState(p, p_alt, 0)]
                 ELSE LET want == IF dt_s > 0 THEN (m.speed * dt_s) \div CellRate ELSE 0
                          move_m == IF want > dist_m THEN dist_m ELSE want
                          np == IF t >= p THEN p + move_m ELSE p - move_m
                      IN  [m |-> [m EXCEPT !.last_pos = np, !.last_alt = p_alt,
                                      !.last_sim_time = sim_time],
                           state |-> MovementState(np, p_alt, m.speed)]

\* is_complete that returns the flag whatever min_speed is
intercept_is_complete_flag(m) == m.intercepted

\* InterceptMovement.is_complete
intercept_is_complete(m) == IF m.min_speed > 0 THEN FALSE ELSE m.intercepted

\* ================================================================ event_engine.py

\* ScenarioEvent; uid is the event object's identity (its place in the input);
\* metadata is the empty dict unless the scenario entry carries extra keys
ScenarioEvent(uid, time_offset, action, target, targets, intercept_target, destination) ==
    [uid |-> uid, time_offset |-> time_offset, action |-> action, target |-> target,
     targets |-> targets, intercept_target |-> intercept_target,
     destination |-> destination, metadata |-> <<>>]

\* sorted(events, key=lambda e: e.time_offset): Python's sort is stable, so an
\* event goes after every event whose time_offset is not greater than its own
insort(s, e) ==
    LET k == Cardinality({j \in 1..Len(s) : s[j].time_offset <= e.time_offset})
    IN  SubSeq(s, 1, k) \o <<e>> \o SubSeq(s, k + 1, Len(s))

RECURSIVE sorted(_)
sorted(events) ==
    IF events = <<>> THEN <<>>
    ELSE insort(sorted(SubSeq(events, 1, Len(events) - 1)), events[Len(events)])

\* EventEngine.__init__ ; _fired holds indices into _events
EventEngine(events) == [events |-> sorted(events), fired |-> <<>>, fired_set |-> {}]

\* mutant: only the display list is cleared
engine_reset_list_only(eng) == [eng EXCEPT !.fired = <<>>]

\* EventEngine.reset
engine_reset(eng) == [eng EXCEPT !.fired = <<>>, !.fired_set = {}]

\* EventEngine.is_complete
is_complete(eng) == Cardinality(eng.fired_set) = Len(eng.events)

\* EventEngine.total_events
total_events(eng) == Len(eng.events)

\* EventEngine.get_fired_events
get_fired_events(eng) == [k \in 1..Len(eng.fired) |-> eng.events[eng.fired[k]]]

\* mutant: the fired-set test is left out
already_fired_unchecked(eng, i) == FALSE

\* event_engine.py:48  "if i in self._fired_set: continue"
already_fired(eng, i) == i \in eng.fired_set

\* mutant: an event fires only once its time has passed
is_due_strict(event, elapsed) == event.time_offset < elapsed

\* event_engine.py:50  "if event.time_offset <= elapsed"
is_due(event, elapsed) == event.time_offset <= elapsed

\* mutant: the lower end of the speed range is taken
intercept_speed_min(entity_type) == speed_range(entity_type)[1]

\* event_engine.py:93-94  the speed an intercept is flown at
intercept_speed(entity_type) == speed_range(entity_type)[2]

\* mutant: nobody is transported
deploy_speed_untransported(max_speed) == (max_speed * 9) \div 10

\* event_engine.py:116-119
deploy_speed_for(max_speed) == IF max_speed <= 60 THEN 250 ELSE (max_speed * 9) \div 10

\* event_engine.py:122-130 and 171-175: travel time, or the fixed fallback
travel_time(dist_nm, speed, fallback) ==
    IF speed > 0 /\ dist_nm > 0 THEN (dist_nm * CellRate) \div speed ELSE fallback

\* EventEngine._apply_action on the world w = [objects, store, movements, ...];
\* raised is set when the action raises (the KeyError of a destination
\* without "lat"/"lon"), with the assignments made before the raise kept.
apply_action(event, w, ref, target_id, sim_time) ==
    LET action == event.action
        entity == w.objects[ref]
        max_speed == speed_range(entity.entity_type)[2]
        finish(objs, movs) ==
            [w EXCEPT !.objects = objs, !.movements = movs,
                      !.store = upsert_entity(w.store, objs, ref)]
    IN  IF action = "intercept"
        THEN IF event.intercept_target = NONE
             THEN w
             ELSE finish([w.objects EXCEPT ![ref].status = "INTERCEPTING",
                                           ![ref].speed_knots = intercept_speed(entity.entity_type)],
                         mov_set(w.movements, target_id,
                                 InterceptMovement(intercept_speed(entity.entity_type),
                                                   event.intercept_target, target_id, 0)))
        ELSE IF action \in {"deploy", "respond"}
        THEN LET objs1 == [w.objects EXCEPT ![ref].status = "RESPONDING"]
             IN  IF event.destination = NoDest
                 THEN finish(objs1, w.movements)
                 ELSE IF event.destination = BadDest
                 THEN [w EXCEPT !.objects = objs1, !.raised = TRUE]
                 ELSE LET current_pos == entity.position
                          deploy_speed == deploy_speed_for(max_speed)
                          dist_nm == geodesic(current_pos, event.destination)
                          travel_td == travel_time(dist_nm, deploy_speed, HalfHour)
                          new_movement ==
                              WaypointMovement(<<Waypoint(current_pos, 0, deploy_speed, 0),
                                                 Waypoint(event.destination, 0, 0, travel_td)>>,
                                               sim_time)
                      IN  finish([objs1 EXCEPT ![ref].speed_knots = deploy_speed],
                                 mov_set(w.movements, target_id, new_movement))
        ELSE IF action \in {"search_area", "patrol"}
        THEN finish([w.objects EXCEPT ![ref].status = "ACTIVE"], w.movements)
        ELSE IF action \in {"lockdown", "secure"}
        THEN finish([w.objects EXCEPT ![ref].status = "ACTIVE", ![ref].speed_knots = 0],
                    mov_del(w.movements, target_id))
        ELSE IF action = "activate"
        THEN finish([w.objects EXCEPT ![ref].status = "ACTIVE"], w.movements)
        ELSE IF action = "escort_to_port"
        THEN LET current_pos == entity.position
                 escort_speed == max_speed \div 2
                 dist_nm == geodesic(current_pos, Sandakan)
                 travel_td == IF escort_speed > 0
                              THEN (dist_nm * CellRate) \div escort_speed
                              ELSE 2 * HalfHour
                 new_movement ==
                     WaypointMovement(<<Waypoint(current_pos, 0, escort_speed, 0),
                                        Waypoint(Sandakan, 0, 0, travel_td)>>, sim_time)
             IN  finish([w.objects EXCEPT ![ref].status = "ACTIVE",
                                          ![ref].speed_knots = escort_speed],
                        mov_set(w.movements, target_id, new_movement))
        ELSE finish([w.objects EXCEPT ![ref].status = "ACTIVE"], w.movements)

\* event_engine.py:66-71  target first, then targets
target_ids(event) ==
    (IF event.target # NONE THEN <<event.target>> ELSE <<>>) \o event.targets

\* what an observer sees of the target right after _apply_action returned
applied_record(event, w, target_id) ==
    LET bound == mov_has(w.movements, target_id)
        m == IF bound THEN mov_get(w.movements, target_id) ELSE [kind |-> NONE]
        ref == get_entity(w.store, target_id)
    IN  [uid |-> event.uid, target_id |-> target_id, bound |-> bound, kind |-> m.kind,
         m_speed |-> IF m.kind = "intercept" THEN m.speed ELSE -1,
         m_target |-> IF m.kind = "intercept" THEN m.target_id ELSE NONE,
         m_pursuer |-> IF m.kind = "intercept" THEN m.pursuer_id ELSE NONE,
         status |-> w.objects[ref].status, speed_knots |-> w.objects[ref].speed_knots,
         entity_type |-> w.objects[ref].entity_type,
         position |-> w.objects[ref].position, m |-> m]

\* mutant: the missing entity is used without the test, which raises
unknown_target_unchecked(w) == [w EXCEPT !.raised = TRUE]

\* event_engine.py:75-77  "if not entity: logger.warning(...); continue"
unknown_target(w) == w

\* EventEngine._fire_event: the loop over target_ids (event_engine.py:73-79)
RECURSIVE fire_targets(_, _, _, _, _)
fire_targets(event, ids, k, w, sim_time) ==
    IF k > Len(ids) \/ w.raised THEN w
    ELSE LET ref == get_entity(w.store, ids[k])
         IN  IF ref = NONE
             THEN fire_targets(event, ids, k + 1, unknown_target(w), sim_time)
             ELSE LET r == apply_action(event, w, ref, ids[k], sim_time)
                      r2 == IF r.raised THEN r
                            ELSE [r EXCEPT !.applied =
                                       Append(@, applied_record(event, r, ids[k]))]
                  IN  fire_targets(event, ids, k + 1, r2, sim_time)

\* EventEngine._fire_event
fire_event(event, w, sim_time) ==
    IF event.action = NONE THEN w
    ELSE fire_targets(event, target_ids(event), 1, w, sim_time)

\* EventEngine.tick: the loop over enumerate(self._events), from index i.
\* st = [engine, w, newly_fired]; a raise in _fire_event ends the call with
\* the event not marked as fired.
RECURSIVE tick_from(_, _, _, _)
tick_from(st, i, elapsed, sim_time) ==
    IF i > Len(st.engine.events) THEN st
    ELSE IF already_fired(st.engine, i) THEN tick_from(st, i + 1, elapsed, sim_time)
    ELSE IF is_due(st.engine.events[i], elapsed)
         THEN LET w2 == fire_event(st.engine.events[i], st.w, sim_time)
              IN  IF w2.raised THEN [st EXCEPT !.w = w2]
                  ELSE tick_from([st EXCEPT !.w = w2,
                                            !.engine.fired = Append(@, i),
                                            !.engine.fired_set = @ \cup {i},
                                            !.newly_fired = Append(@, i)],
                                 i + 1, elapsed, sim_time)
         ELSE tick_from(st, i + 1, elapsed, sim_time)

\* run_simulator.py:204  scenario_start is the clock's start_time: offset 0
scenario_start == 0

\* EventEngine.tick
tick(eng, objs, st, movs, sim_time) ==
    tick_from([engine |-> eng,
               w |-> [objects |-> objs, store |-> st, movements |-> movs,
                      raised |-> FALSE, applied |-> <<>>],
               newly_fired |-> <<>>],
              1, sim_time - scenario_start, sim_time)

\* ================================================================ registry.py

\* the adapters there are to register
AdapterNames == {"console", "websocket", "rest"}

\* the three fan-out calls and the adapter method each one awaits
PushMethods == {"push_entity_update", "push_bulk_update", "push_event"}

\* what awaiting an adapter's method does: it returns, or raises an Exception
Outcomes == {"returns", "raises"}

\* TransportRegistry.__init__ (registry.py:20-21), with the fan-out call in
\* progress: its method, the position of its "for t in self._transports",
\* the adapter calls made, the warnings logged, whether it raised
TransportRegistry ==
    [transports |-> <<>>, pc |-> "idle", method |-> NONE, i |-> 1,
     calls |-> <<>>, warnings |-> 0, raised |-> FALSE, at_return |-> <<>>]

\* TransportRegistry.register (registry.py:23-26)
register(reg, adapter) == [reg EXCEPT !.transports = Append(@, adapter)]

\* entering push_entity_update / push_bulk_update / push_event
push_begin(reg, method) ==
    [reg EXCEPT !.pc = "iterating", !.method = method, !.i = 1,
                !.calls = <<>>, !.warnings = 0, !.raised = FALSE]

\* mutant: the adapter call is awaited outside any try
push_one_unguarded(reg, outcome) ==
    LET called == [reg EXCEPT !.calls = Append(@, [adapter |-> reg.transports[reg.i],
                                                   method |-> reg.method,
                                                   outcome |-> outcome])]
    IN  IF outcome = "raises"
        THEN [called EXCEPT !.pc = "returned", !.raised = TRUE,
                            !.at_return = reg.transports]
        ELSE [called EXCEPT !.i = @ + 1]

\* one pass of the loop body (registry.py:46-50, 54-58, 62-66):
\* try: await t.<method>(...)  except Exception: logger.warning(...)
push_one(reg, outcome) ==
    LET called == [reg EXCEPT !.calls = Append(@, [adapter |-> reg.transports[reg.i],
                                                   method |-> reg.method,
                                                   outcome |-> outcome])]
    IN  IF outcome = "raises"
        THEN [called EXCEPT !.warnings = @ + 1, !.i = @ + 1]
        ELSE [called EXCEPT !.i = @ + 1]

\* the list iterator is exhausted: the coroutine returns None (at_return
\* keeps what _transports held at that moment)
push_end(reg) == [reg EXCEPT !.pc = "returned", !.at_return = reg.transports]

RegistryAtRest == registry = TransportRegistry

\* run_simulator.py:324-342  run() has created its stop Event and awaits
\* simulation_loop
RunAtRest == run = [stop |-> FALSE, pc |-> "loop", i |-> 1, disconnected |-> <<>>]

\* ---- the clock driven by its callers and by the passage of wall time
ClockAtRest ==
    /\ clock = SimulationClock(1)
    /\ monotonic = 0

\* run_simulator.py:196-198  store.add_entity(entity) for every scenario
\* entity: the store holds the scenario's own Entity objects
WorldAtRest ==
    /\ objects = LoadedEntities
    /\ store = [id \in EntityIds |-> id]
    /\ movements = LoadedMovements

EngineRefs == {1, 2}

NoTick ==
    [op |-> "init", sim_time |-> 0, pre_fired_set |-> {}, newly_fired |-> <<>>,
     raised |-> FALSE, applied |-> <<>>]

NoHist == [fire_count |-> [u \in 1..MaxEvents |-> 0], resets |-> 0]

EngineAtRest ==
    /\ engines = [r \in EngineRefs |-> EventEngine(<<>>)]
    /\ last_tick = NoTick
    /\ hist = NoHist

\* run_simulator.py:200, 333-337  one EventEngine, named by run()'s variable
\* and handed to simulation_loop as its parameter
\* AviationSimulator.__init__
AviationSimulator == [last_tick_time |-> NoTime]

\* no entity is followed at sensor resolution
NoNav == [entity |-> NONE, noise |-> NONE, passes |-> 0]

\* no outbound adapter is exercised on its own
NoOutbound == [name |-> NONE]

\* no InterceptMovement is called on its own
NoPursuit == [m |-> NONE, calls |-> 0]

\* entity_store.py:24  no thread is in a store call, the lock is free
NoThreads == [lock |-> 0, calls |-> 0, delivered |-> <<>>, abstract |-> <<>>, at |-> <<>>]

\* entity_store.py:25  no callback has been called, no store call made
NoCalls == [received |-> <<>>, calls |-> 0,
            last |-> [op |-> NONE, entity_id |-> NONE, raised |-> NONE]]

LoopAtRest ==
    /\ event_engine = [run |-> 1, loop |-> 1]
    /\ loop = [pc |-> "top", sim_time |-> 0, pending |-> <<>>, tick_count |-> 0,
               max_ticks |-> MaxTicks]
    /\ noise_cache = [d \in {} |-> {}]
    /\ aviation = AviationSimulator
    /\ nav = NoNav
    /\ listener = NoCalls
    /\ threads = NoThreads
    /\ pursuit = NoPursuit
    /\ ws = [event_history |-> <<>>, trail_history |-> {}]

InitClock ==
    /\ ClockAtRest
    /\ WorldAtRest
    /\ EngineAtRest
    /\ LoopAtRest
    /\ RegistryAtRest
    /\ RunAtRest
    /\ outbound = NoOutbound

WallAdvance ==
    /\ monotonic < MaxWall
    /\ monotonic' = monotonic + 1
    /\ UNCHANGED <<clock, worldVars, engineVars, loopVars, registry, run>>

ClockStart ==
    /\ clock' = start(clock, monotonic)
    /\ UNCHANGED <<monotonic, worldVars, engineVars, loopVars, registry, run>>

ClockPause ==
    /\ clock' = pause(clock, monotonic)
    /\ UNCHANGED <<monotonic, worldVars, engineVars, loopVars, registry, run>>

ClockResume ==
    /\ clock' = resume(clock, monotonic)
    /\ UNCHANGED <<monotonic, worldVars, engineVars, loopVars, registry, run>>

ClockSetSpeed ==
    /\ \E m \in Multipliers : clock' = set_speed(clock, m, monotonic)
    /\ UNCHANGED <<monotonic, worldVars, engineVars, loopVars, registry, run>>

NextClock ==
    \/ WallAdvance
    \/ ClockStart
    \/ ClockPause
    \/ ClockResume
    \/ ClockSetSpeed

SpecClock == InitClock /\ [][NextClock]_vars

\* ================================================================ the event engine on its own

\* events a scenario file can hold, for the event object uid at offset t:
\* a plain notification, an intercept order, a deployment whose destination
\* lacks its coordinates, and a lockdown that also names an id the store
\* does not hold
Catalog(uid, t) ==
    { ScenarioEvent(uid, t, NONE, NONE, <<>>, NONE, NoDest),
      ScenarioEvent(uid, t, "intercept", "P", <<>>, "T", NoDest),
      ScenarioEvent(uid, t, "deploy", "P", <<>>, NONE, BadDest),
      ScenarioEvent(uid, t, "lockdown", "T", <<"X">>, NONE, NoDest) }

\* the timelines of up to MaxEvents events, event object u in input place u
Timelines ==
    UNION { { tl \in [1..n -> UNION {Catalog(u, t) : u \in 1..n, t \in 0..MaxOffset}] :
                \A u \in 1..n : tl[u].uid = u } : n \in 1..MaxEvents }

InitEngine ==
    /\ ClockAtRest
    /\ WorldAtRest
    /\ \E tl \in Timelines :
          engines = [r \in EngineRefs |-> EventEngine(tl)]
    /\ last_tick = NoTick
    /\ hist = NoHist
    /\ LoopAtRest
    /\ RegistryAtRest
    /\ RunAtRest
    /\ outbound = NoOutbound

\* how often each event object occurs in a list of fired indices
count_fired(eng, indices, uid) ==
    Cardinality({k \in 1..Len(indices) : eng.events[indices[k]].uid = uid})

\* engine.tick(sim_time) on engine object ref, with its effects on the world
tick_call(ref, sim_time) ==
    LET r == tick(engines[ref], objects, store, movements, sim_time)
    IN  /\ engines' = [engines EXCEPT ![ref] = r.engine]
        /\ objects' = r.w.objects
        /\ store' = r.w.store
        /\ movements' = r.w.movements
        /\ last_tick' = [op |-> "tick", sim_time |-> sim_time,
                         pre_fired_set |-> engines[ref].fired_set,
                         newly_fired |-> r.newly_fired, raised |-> r.w.raised,
                         applied |-> r.w.applied]
        /\ hist' = [hist EXCEPT !.fire_count =
                      [u \in 1..MaxEvents |-> @[u] + count_fired(r.engine, r.newly_fired, u)]]

EngineTick ==
    /\ \E sim_time \in 0..MaxSimTime : tick_call(1, sim_time)
    /\ UNCHANGED <<clockVars, loopVars, registry, run>>

EngineReset ==
    /\ hist.resets < MaxResets
    /\ engines' = [engines EXCEPT ![1] = engine_reset(@)]
    /\ last_tick' = [NoTick EXCEPT !.op = "reset"]
    /\ hist' = [fire_count |-> [u \in 1..MaxEvents |-> 0], resets |-> hist.resets + 1]
    /\ UNCHANGED <<clockVars, worldVars, loopVars, registry, run>>

NextEngine ==
    \/ EngineTick
    \/ EngineReset

SpecEngine == InitEngine /\ [][NextEngine]_vars

\* C4: with start, pause, resume and set_speed (any multiplier) interleaved
\* with advancing wall time and no reset, successive reads of
\* get_elapsed()/get_sim_time() never decrease.
C4_ElapsedNeverDecreases ==
    [][get_elapsed(clock', monotonic') >= get_elapsed(clock, monotonic)]_vars

\* ================================================================ run_simulator.py

\* run_simulator.py:143  "tick_count > 10"
CompletionTicks == 10

\* personnel.py:51  max_speed_kts = 4.3
PersonnelMaxSpeed == 43

\* run_simulator.py:215-225  adapters = [console, ws_adapter]
Adapters == <<"console", "websocket">>

\* PatrolMovement._generate_waypoints (patrol.py:67-129): a fresh route
\* through the polygon starting at start_offset.  The route is drawn from the
\* strategy's own seeded generator; here the polygon is a pair of cells and
\* the route one leg between them, a time unit long (the one-second lead-in
\* and the dwell times are below the time resolution).
generate_waypoints(p, start_offset) ==
    [p EXCEPT !.waypoint_movement =
                  WaypointMovement(<<Waypoint(p.polygon[1], 0, p.speed, start_offset),
                                     Waypoint(p.polygon[2], 0, p.speed, start_offset + 1)>>,
                                   p.scenario_start),
              !.polygon = <<p.polygon[2], p.polygon[1]>>,
              !.last_offset = start_offset + 1]

\* PatrolMovement.__init__ (patrol.py:25-41)
PatrolMovement(polygon, speed_knots, start_time) ==
    generate_waypoints([kind |-> "patrol", polygon |-> polygon, speed |-> speed_knots,
                        scenario_start |-> start_time, last_offset |-> 0,
                        waypoint_movement |-> NONE], 0)

\* PatrolMovement.get_state (patrol.py:131-135): the strategy after the
\* call and the state
patrol_get_state(p, sim_time) ==
    LET q == IF waypoint_is_complete(p.waypoint_movement, sim_time)
             THEN generate_waypoints(p, p.last_offset) ELSE p
    IN  [m |-> q, state |-> waypoint_get_state(q.waypoint_movement, sim_time)]

\* PatrolMovement.is_complete (patrol.py:137-139)
patrol_is_complete(p, sim_time) == FALSE

\* movement.get_state(sim_time): the strategy object after the call and the state
get_state(m, st, objs, sim_time) ==
    IF m.kind = "waypoint"
    THEN [m |-> m, state |-> waypoint_get_state(m, sim_time)]
    ELSE IF m.kind = "patrol" THEN patrol_get_state(m, sim_time)
    ELSE intercept_get_state(m, st, objs, sim_time)

\* m.is_complete(sim_time)
movement_is_complete(m, sim_time) ==
    IF m.kind = "waypoint" THEN waypoint_is_complete(m, sim_time)
    ELSE IF m.kind = "patrol" THEN patrol_is_complete(m, sim_time)
    ELSE intercept_is_complete(m)

\* PositionNoise.apply and the terrain fix: the position offsets (at most
\* 50 m of noise, 0.05 degrees of terrain search) stay inside the cell, and
\* the speed stays non-negative; the state passes through at this resolution
noise_apply(state) == state

\* run_simulator.py:74-77  the noise instance used for an entity is the one
\* cached under its domain key
noise_cache_apply(cache, domain_key, entity_id) ==
    [d \in (DOMAIN cache) \cup {domain_key} |->
        IF d = domain_key
        THEN (IF d \in DOMAIN cache THEN cache[d] ELSE {}) \cup {entity_id}
        ELSE cache[d]]

\* run_simulator.py:83  the domains whose positions are validated against terrain
TerrainDomains == {"MARITIME", "GROUND_VEHICLE", "PERSONNEL"}

\* run_simulator.py:71-103  the steps of the loop body for one entity, in
\* the order of its statements: get_state, noise apply, the terrain check
\* (for the checked domains, unless the entity's metadata asks to skip it),
\* upsert_entity
entity_phases(entity) ==
    LET skip_terrain == IF "skip_terrain_check" \in DOMAIN entity
                        THEN entity.skip_terrain_check ELSE FALSE
        step(phase) == [phase |-> phase, of |-> entity.entity_id]
    IN  <<step("strategy"), step("noise")>>
        \o (IF ~skip_terrain /\ entity.domain \in TerrainDomains
            THEN <<step("terrain")>> ELSE <<>>)
        \o <<step("store")>>

\* mutant: the body asks the strategy a second time for the state it writes
move_entity_requery(w, binding, sim_time) ==
    LET entity_id == binding.id
        ref == get_entity(w.store, entity_id)
    IN  IF ref = NONE THEN w
        ELSE LET first == get_state(binding.m, w.store, w.objects, sim_time)
                 r == get_state(first.m, w.store, w.objects, sim_time)
                 noisy_state == noise_apply(r.state)
                 objs1 == [w.objects EXCEPT ![ref].position = noisy_state.pos,
                                            ![ref].altitude_m = noisy_state.alt_m,
                                            ![ref].speed_knots = noisy_state.speed_knots]
             IN  [objects |-> objs1,
                  store |-> upsert_entity(w.store, objs1, ref),
                  movements |-> mov_set(w.movements, entity_id, r.m),
                  noise_cache |-> noise_cache_apply(w.noise_cache,
                                                    w.objects[ref].domain, entity_id),
                  queried |-> w.queried \o <<[id |-> entity_id, m |-> binding.m],
                                             [id |-> entity_id, m |-> first.m]>>,
                  written |-> Append(w.written, entity_id),
                  phases |-> w.phases \o entity_phases(w.objects[ref])]

\* run_simulator.py:67-103  the body of the movement phase for one binding
\* (entity_id, movement) of the snapshot; w = [objects, store, movements,
\* noise_cache] and the record of the calls made so far in this tick:
\* queried (movement.get_state, with the strategy it was called on) and
\* written (entity_store.upsert_entity)
move_entity(w, binding, sim_time) ==
    LET entity_id == binding.id
        ref == get_entity(w.store, entity_id)
    IN  IF ref = NONE THEN w
        ELSE LET r == get_state(binding.m, w.store, w.objects, sim_time)
                 noisy_state == noise_apply(r.state)
                 objs1 == [w.objects EXCEPT ![ref].position = noisy_state.pos,
                                            ![ref].altitude_m = noisy_state.alt_m,
                                            ![ref].speed_knots = noisy_state.speed_knots]
             IN  [objects |-> objs1,
                  store |-> upsert_entity(w.store, objs1, ref),
                  movements |-> mov_set(w.movements, entity_id, r.m),
                  noise_cache |-> noise_cache_apply(w.noise_cache,
                                                    w.objects[ref].domain, entity_id),
                  queried |-> Append(w.queried, [id |-> entity_id, m |-> binding.m]),
                  written |-> Append(w.written, entity_id),
                  phases |-> w.phases \o entity_phases(w.objects[ref])]

\* run_simulator.py:66  "for entity_id, movement in list(movements.items())":
\* the movement phase over the snapshot, from its binding k
RECURSIVE move_entities(_, _, _, _)
move_entities(snapshot, k, w, sim_time) ==
    IF k > Len(snapshot) THEN w
    ELSE move_entities(snapshot, k + 1, move_entity(w, snapshot[k], sim_time), sim_time)

\* aviation.py:19-34  climb rates in thousands of feet per time unit (500 and
\* 1000 feet per minute over 30 minutes) and cruise altitudes in thousands of feet
CLIMB_RATES == [CIVILIAN_LIGHT |-> <<15, 30>>, RMAF_HELICOPTER |-> <<15, 45>>,
                RMAF_FIGHTER |-> <<150, 450>>]

CRUISE_ALTITUDES == [CIVILIAN_LIGHT |-> 5, RMAF_HELICOPTER |-> 3, RMAF_FIGHTER |-> 25]

\* aviation.py:37  50 ft, below the altitude resolution
FIELD_ELEVATION == 0

\* aviation.py:138  "HELICOPTER" in etype.upper() or "HELI" in etype.upper()
Helicopters == {"RMAF_HELICOPTER"}

\* entity.metadata[key] = value, for the metadata keys the entity carries
set_metadata(entity, key, value) ==
    IF key \in DOMAIN entity THEN [entity EXCEPT ![key] = value] ELSE entity

\* AviationSimulator._update_flight_profile: the entity after the call.
\* target_altitude_ft is read where the scenario metadata carries it (no
\* scramble), and the 100 ft cruise tolerance is below the resolution.
update_flight_profile(entity, dt_s) ==
    LET etype == entity.entity_type
        cruise_alt_ft == IF etype \in DOMAIN CRUISE_ALTITUDES THEN CRUISE_ALTITUDES[etype] ELSE 10
        climb_range == IF etype \in DOMAIN CLIMB_RATES THEN CLIMB_RATES[etype] ELSE <<30, 60>>
        current_alt_ft == entity.altitude_m
        target_alt_ft == IF "target_altitude_ft" \in DOMAIN entity
                         THEN entity.target_altitude_ft ELSE cruise_alt_ft
        taking_off == entity.on_ground /\ entity.speed_knots > 0
        on_ground == IF taking_off THEN FALSE ELSE entity.on_ground
        took_off == IF taking_off THEN set_metadata(entity, "flight_phase", "takeoff")
                    ELSE entity
        alt_diff == target_alt_ft - current_alt_ft
        climb_fpm == IF entity.status = "RESPONDING" THEN climb_range[2] ELSE climb_range[1]
        descent_fpm == climb_range[1]
        climbed == current_alt_ft + (IF climb_fpm * dt_s < alt_diff THEN climb_fpm * dt_s
                                     ELSE alt_diff)
        descended == current_alt_ft - (IF descent_fpm * dt_s < -alt_diff
                                       THEN descent_fpm * dt_s ELSE -alt_diff)
        profiled ==
            IF entity.status \notin {"ACTIVE", "RESPONDING", "INTERCEPTING"} THEN entity
            ELSE IF on_ground THEN entity
            ELSE IF alt_diff = 0
                 THEN set_metadata([took_off EXCEPT !.on_ground = FALSE], "flight_phase", "cruise")
            ELSE IF alt_diff > 0
                 THEN set_metadata([took_off EXCEPT !.on_ground = FALSE, !.altitude_m = climbed],
                                   "flight_phase", "climb")
                 ELSE IF descended <= FIELD_ELEVATION
                      THEN set_metadata([took_off EXCEPT !.on_ground = TRUE,
                                                         !.altitude_m = FIELD_ELEVATION],
                                        "flight_phase", "landed")
                      ELSE set_metadata([took_off EXCEPT !.on_ground = FALSE,
                                                         !.altitude_m = descended],
                                        "flight_phase", "descent")
    IN  IF dt_s <= 0 \/ (entity.status = "IDLE" /\ entity.on_ground)
        THEN IF entity.status = "IDLE" /\ entity.on_ground
             THEN set_metadata(entity, "flight_phase", "parked")
             ELSE entity
        ELSE IF etype \in Helicopters /\ entity.speed_knots < 50 /\ ~on_ground
             THEN set_metadata(profiled, "flight_phase", "hover")
             ELSE profiled

\* AviationSimulator.tick (aviation.py:50-61): the simulator and the objects
\* after the call
aviation_tick(av, objs, st, sim_time) ==
    LET dt_s == IF av.last_tick_time # NoTime THEN sim_time - av.last_tick_time ELSE 0
    IN  [aviation |-> [av EXCEPT !.last_tick_time = sim_time],
         objects |-> [ref \in DOMAIN objs |->
                        IF (\E id \in DOMAIN st : st[id] = ref) /\ objs[ref].domain = "AIR"
                        THEN update_flight_profile(objs[ref], dt_s)
                        ELSE objs[ref]]]

\* GroundVehicleSimulator.tick (ground_vehicle.py:35-36): altitude forced to 0
ground_vehicle_tick(objs, st) ==
    [ref \in DOMAIN objs |->
        IF /\ \E id \in DOMAIN st : st[id] = ref
           /\ objs[ref].domain = "GROUND_VEHICLE"
           /\ objs[ref].altitude_m # 0
        THEN [objs[ref] EXCEPT !.altitude_m = 0]
        ELSE objs[ref]]

\* PersonnelSimulator.tick (personnel.py:50-53): the speed clamp.  The
\* metadata the post-processors write besides is not carried.
personnel_tick(objs, st) ==
    [ref \in DOMAIN objs |->
        IF /\ \E id \in DOMAIN st : st[id] = ref
           /\ objs[ref].domain = "PERSONNEL"
           /\ objs[ref].speed_knots > PersonnelMaxSpeed
        THEN [objs[ref] EXCEPT !.speed_knots = PersonnelMaxSpeed]
        ELSE objs[ref]]

\* run_simulator.py:114-128  the pushes of one tick, in the order they are awaited
RECURSIVE event_pushes(_, _)
event_pushes(eng, newly_fired) ==
    IF newly_fired = <<>> THEN <<>>
    ELSE [a \in 1..Len(Adapters) |->
             [kind |-> "event", adapter |-> Adapters[a],
              uid |-> eng.events[Head(newly_fired)].uid]]
         \o event_pushes(eng, Tail(newly_fired))

bulk_pushes == [a \in 1..Len(Adapters) |-> [kind |-> "bulk", adapter |-> Adapters[a], uid |-> 0]]

\* mutant: the bulk snapshot is pushed before the fired events
tick_pushes_bulk_first(eng, newly_fired) == bulk_pushes \o event_pushes(eng, newly_fired)

\* run_simulator.py:113-128  the fired events are pushed first, the bulk
\* snapshot after them
tick_pushes(eng, newly_fired) == event_pushes(eng, newly_fired) \o bulk_pushes

\* run_simulator.py:212  domain_simulators, in list order.  The maritime
\* simulator writes AIS metadata only, which the entities here do not carry.
DomainSimulators == <<"maritime", "aviation", "ground_vehicle", "personnel">>

\* run_simulator.py:106-110  the domain simulators are ticked in list
\* order, each inside its own try
domain_phases ==
    [k \in 1..Len(DomainSimulators) |-> [phase |-> "domain", of |-> DomainSimulators[k]]]

\* ConsoleAdapter's push_event and push_bulk_update (console_adapter.py:35-63)
\* contain no suspending await: awaiting them never yields to the event loop,
\* so the loop runs on to the next WebSocket push
RECURSIVE run_to_await(_)
run_to_await(pending) ==
    IF pending # <<>> /\ Head(pending).adapter = "console"
    THEN run_to_await(Tail(pending))
    ELSE pending

\* WebSocketAdapter.push_event / push_bulk_update: what the adapter keeps
ws_push(w, push) ==
    IF push.adapter # "websocket" THEN w
    ELSE IF push.kind = "event"
    THEN [w EXCEPT !.event_history = Append(@, push.uid)]
    ELSE [w EXCEPT !.trail_history = EntityIds]

\* run_simulator.py:295-296  store.upsert_entity(entity) for every entity of
\* scenario_state.entities; these are the objects the store already holds
RECURSIVE restart_entities(_, _, _)
restart_entities(st, objs, k) ==
    IF k > Len(ScenarioIds) THEN st
    ELSE restart_entities(upsert_entity(st, objs, ScenarioIds[k]), objs, k + 1)

\* mutant: restart builds a fresh engine and rebinds run()'s variable to it
restart_engine_rebind(engs, refs) ==
    [engines |-> [engs EXCEPT ![2] = engine_reset(engs[refs.run])],
     event_engine |-> [refs EXCEPT !.run = 2]]

\* run_simulator.py:298-299  event_engine.reset() on the object run() holds
restart_engine(engs, refs) ==
    [engines |-> [engs EXCEPT ![refs.run] = engine_reset(@)],
     event_engine |-> refs]

\* run_simulator.py:288-289, 300  clock.pause(); clock.reset(); ... clock.start()
restart_clock(c, now) == start(reset(pause(c, now)), now)

\* run_simulator.py:142-152  the completion check at the end of a tick.
\* WaypointMovement, PatrolMovement, OrbitMovement and InterceptMovement all
\* define is_complete, so the hasattr filter lets every binding through.
scenario_complete(eng, tick_count, movs, sim_time) ==
    /\ is_complete(eng)
    /\ tick_count > CompletionTicks
    /\ \A k \in 1..Len(movs) : movement_is_complete(movs[k].m, sim_time)

\* ================================================================ the tick loop and the restart command

\* the timelines the loop is run on: every event carries an order, and
\* event u is timed at offset u (or the largest offset)
LoopTimelines ==
    {tl \in Timelines :
        \A u \in 1..Len(tl) :
            /\ tl[u].action # NONE
            /\ tl[u].time_offset = IF u <= MaxOffset THEN u ELSE MaxOffset}

\* run_simulator.py:192, 320  the clock is built at the CLI speed and started
InitLoop ==
    /\ clock = start(SimulationClock(1), 0)
    /\ monotonic = 0
    /\ WorldAtRest
    /\ \E tl \in LoopTimelines :
          engines = [r \in EngineRefs |-> EventEngine(tl)]
    /\ last_tick = NoTick
    /\ hist = NoHist
    /\ LoopAtRest
    /\ RegistryAtRest
    /\ RunAtRest
    /\ outbound = NoOutbound

\* one pass of "while not stop_event.is_set()" up to its first await:
\* run_simulator.py:58-113; the loop is followed for loop.max_ticks ticks
LoopIteration ==
    /\ loop.pc = "top"
    /\ ~run.stop
    /\ loop.tick_count < loop.max_ticks
    /\ IF ~clock.running
       THEN UNCHANGED <<worldVars, engineVars, loopVars>>
       ELSE \E sim_time \in {get_sim_time(clock, monotonic)} :
            \E moved \in {move_entities(movements, 1,
                            [objects |-> objects, store |-> store,
                             movements |-> movements, noise_cache |-> noise_cache,
                             queried |-> <<>>, written |-> <<>>, phases |-> <<>>],
                            sim_time)} :
            \E av \in {aviation_tick(aviation, moved.objects, moved.store, sim_time)} :
            \E ground \in {ground_vehicle_tick(av.objects, moved.store)} :
            \E objs2 \in {personnel_tick(ground, moved.store)} :
            \E ref \in {event_engine.loop} :
            \E r \in {tick(engines[ref], objs2, moved.store, moved.movements, sim_time)} :
                /\ engines' = [engines EXCEPT ![ref] = r.engine]
                /\ objects' = r.w.objects
                /\ store' = r.w.store
                /\ movements' = r.w.movements
                /\ noise_cache' = moved.noise_cache
                /\ aviation' = av.aviation
                /\ last_tick' = [op |-> "tick", sim_time |-> sim_time,
                                 pre_fired_set |-> engines[ref].fired_set,
                                 newly_fired |-> r.newly_fired, raised |-> r.w.raised,
                                 applied |-> r.w.applied,
                                 queried |-> moved.queried, written |-> moved.written,
                                 phases |-> moved.phases \o domain_phases
                                              \o <<[phase |-> "event_engine", of |-> "tick"]>>]
                /\ hist' = [hist EXCEPT !.fire_count =
                              [u \in 1..MaxEvents |->
                                  @[u] + count_fired(r.engine, r.newly_fired, u)]]
                /\ loop' = IF r.w.raised
                           THEN [loop EXCEPT !.pc = "crashed", !.sim_time = sim_time]
                           ELSE [loop EXCEPT !.pc = "push", !.sim_time = sim_time,
                                             !.pending =
                                                 run_to_await(tick_pushes(r.engine, r.newly_fired))]
                /\ UNCHANGED <<event_engine, unitVars, ws>>
    /\ UNCHANGED <<clockVars, registry, run>>

\* one awaited adapter push (run_simulator.py:115-128); an exception the
\* adapter raises is caught and logged.  After the last push the tick ends:
\* run_simulator.py:130-152
LoopPush ==
    /\ loop.pc = "push"
    /\ \E adapter_raises \in BOOLEAN :
          LET push == Head(loop.pending)
              rest == run_to_await(Tail(loop.pending))
              n == loop.tick_count + 1
          IN  /\ ws' = ws_push(ws, push)
              /\ loop' = IF rest # <<>>
                         THEN [loop EXCEPT !.pending = rest]
                         ELSE [loop EXCEPT !.pending = rest, !.tick_count = n,
                                   !.pc = IF scenario_complete(engines[event_engine.loop], n,
                                                               movements, loop.sim_time)
                                          THEN "done" ELSE "sleep"]
    /\ UNCHANGED <<clockVars, worldVars, engineVars, event_engine, noise_cache, aviation, unitVars,
                 registry, run>>

\* run_simulator.py:155  the inter-tick sleep returns
LoopWake ==
    /\ loop.pc = "sleep"
    /\ loop' = [loop EXCEPT !.pc = "top"]
    /\ UNCHANGED <<clockVars, worldVars, engineVars, event_engine, noise_cache, aviation, unitVars, ws,
                 registry, run>>

\* a client command runs while the loop is suspended at an await; once the
\* loop has returned or raised, run() ends and no command is served
LoopSuspended == loop.pc \in {"top", "push", "sleep"}

\* handle_restart (run_simulator.py:285-300)
Restart ==
    /\ LoopSuspended
    /\ hist.resets < MaxResets
    /\ LET e == restart_engine(engines, event_engine)
       IN  /\ engines' = e.engines
           /\ event_engine' = [event_engine EXCEPT !.run = e.event_engine.run]
    /\ clock' = restart_clock(clock, monotonic)
    /\ ws' = [ws EXCEPT !.trail_history = {}, !.event_history = <<>>]
    /\ store' = restart_entities(store, objects, 1)
    /\ last_tick' = [NoTick EXCEPT !.op = "reset"]
    /\ hist' = [fire_count |-> [u \in 1..MaxEvents |-> 0], resets |-> hist.resets + 1]
    /\ UNCHANGED <<monotonic, objects, movements, loop, noise_cache, aviation, unitVars, registry, run>>

NextLoop ==
    \/ LoopIteration
    \/ LoopPush
    \/ LoopWake
    \/ Restart
    \/ WallAdvance

SpecLoop == InitLoop /\ [][NextLoop]_vars

\* ================================================================ properties of the event engine

TheEngine == engines[1]

\* indices the latest tick fired
FiredNow == {last_tick.newly_fired[k] : k \in 1..Len(last_tick.newly_fired)}

\* indices that were unfired and had time_offset <= sim_time - scenario_start
\* when the latest tick was called
DueThen ==
    {i \in 1..Len(TheEngine.events) :
        /\ i \notin last_tick.pre_fired_set
        /\ TheEngine.events[i].time_offset <= last_tick.sim_time - scenario_start}

\* C1: within one reset epoch, whatever sim_time values tick is called with,
\* each event of the timeline is fired (applied and returned) at most once.
C1_FiresAtMostOncePerEpoch ==
    /\ \A u \in 1..MaxEvents : hist.fire_count[u] <= 1
    /\ \A j, k \in 1..Len(last_tick.newly_fired) :
          j # k => last_tick.newly_fired[j] # last_tick.newly_fired[k]

\* a tick was called at a time at which an already fired event was due again
C1_Witness ==
    /\ last_tick.op = "tick"
    /\ \E i \in last_tick.pre_fired_set :
          TheEngine.events[i].time_offset <= last_tick.sim_time - scenario_start

\* C2: the event list is in time order with ties in input order; a tick fires
\* only unfired events whose time_offset <= elapsed, and a tick that returns
\* has fired all of them and returns them in list order.
C2_TickFiresExactlyTheDue ==
    /\ \A i, j \in 1..Len(TheEngine.events) :
          i < j => \/ TheEngine.events[i].time_offset < TheEngine.events[j].time_offset
                   \/ /\ TheEngine.events[i].time_offset = TheEngine.events[j].time_offset
                      /\ TheEngine.events[i].uid < TheEngine.events[j].uid
    /\ last_tick.op = "tick" =>
          /\ FiredNow \subseteq DueThen
          /\ TheEngine.fired_set = last_tick.pre_fired_set \cup FiredNow
          /\ ~last_tick.raised =>
                /\ FiredNow = DueThen
                /\ \A j, k \in 1..Len(last_tick.newly_fired) :
                      j < k => last_tick.newly_fired[j] < last_tick.newly_fired[k]

\* a tick returned at least one event and left one whose time had not come
C2_Witness ==
    /\ last_tick.op = "tick"
    /\ ~last_tick.raised
    /\ FiredNow # {}
    /\ \E i \in 1..Len(TheEngine.events) :
          TheEngine.events[i].time_offset > last_tick.sim_time - scenario_start

\* C3: right after reset the fired count is 0 and is_complete is false (the
\* timeline is not empty); a tick that returns at a sim time >= the last
\* event's time_offset leaves every event fired: the fired count is the
\* number of events and is_complete is true.
C3_ResetThenRefire ==
    /\ last_tick.op = "reset" =>
          /\ Len(get_fired_events(TheEngine)) = 0
          /\ total_events(TheEngine) > 0 => ~is_complete(TheEngine)
    /\ ( /\ last_tick.op = "tick"
         /\ ~last_tick.raised
         /\ total_events(TheEngine) > 0
         /\ last_tick.sim_time - scenario_start
               >= TheEngine.events[Len(TheEngine.events)].time_offset )
       => /\ Len(get_fired_events(TheEngine)) = total_events(TheEngine)
          /\ is_complete(TheEngine)
          /\ \A u \in 1..total_events(TheEngine) : hist.fire_count[u] = 1

\* after a reset, a tick past the last event fired the whole timeline again
C3_Witness ==
    /\ hist.resets >= 1
    /\ last_tick.op = "tick"
    /\ total_events(TheEngine) = MaxEvents
    /\ Len(last_tick.newly_fired) = total_events(TheEngine)
    /\ is_complete(TheEngine)

event_of(uid) == CHOOSE e \in {TheEngine.events[i] : i \in 1..Len(TheEngine.events)} : e.uid = uid

\* intercept events with an intercept_target that the latest tick applied to
\* an entity of the store
InterceptsApplied ==
    {k \in 1..Len(last_tick.applied) :
        /\ event_of(last_tick.applied[k].uid).action = "intercept"
        /\ event_of(last_tick.applied[k].uid).intercept_target # NONE}

\* C7: when an intercept event with an intercept_target has been applied to a
\* target in the store, movements[target] is an Intercept strategy pursuing
\* intercept_target at the maximum speed of the entity's type, and the stored
\* entity has status INTERCEPTING and speed_knots equal to that maximum.
C7_InterceptSwapsMovement ==
    \A k \in InterceptsApplied :
        LET a == last_tick.applied[k]
            max_speed == ENTITY_TYPES[a.entity_type].speed_range[2]
        IN  /\ a.bound
            /\ a.kind = "intercept"
            /\ a.m_target = event_of(a.uid).intercept_target
            /\ a.m_pursuer = a.target_id
            /\ a.m_speed = max_speed
            /\ a.status = "INTERCEPTING"
            /\ a.speed_knots = max_speed

C7_Witness ==
    \E k \in InterceptsApplied :
        /\ last_tick.applied[k].target_id = "P"
        /\ last_tick.applied[k].status = "INTERCEPTING"

\* ================================================================ properties of the tick loop and restart

\* the engine simulation_loop calls tick on
LoopEngine == engines[event_engine.loop]

\* C5: no exception raised inside a tick of simulation_loop (EventEngine.tick
\* on an event whose action data is malformed included) propagates out of
\* the loop.
C5_NoErrorEscapesLoop == loop.pc # "crashed"

\* C8: after the restart command is handled, every scenario entity of the
\* store is at the position it had when the scenario was loaded.
C8_RestartRestoresPositions ==
    last_tick.op = "reset" =>
        \A id \in EntityIds :
            objects[get_entity(store, id)].position = LoadedEntities[id].position

\* C9: after the restart command is handled, the movements map holds the
\* scenario's initial strategy for every entity.
C9_RestartRebuildsMovements ==
    last_tick.op = "reset" => movements = LoadedMovements

\* C10: right after restart the engine the loop ticks has fired count 0, and
\* in the new epoch every tick of the loop that returns leaves each event
\* whose time_offset the sim time has reached fired exactly once, and no
\* event fired more than once, whatever the loop was doing when the restart
\* arrived.
C10_LoopObservesResetEngine ==
    hist.resets >= 1 =>
        /\ last_tick.op = "reset" =>
              /\ Len(get_fired_events(LoopEngine)) = 0
              /\ LoopEngine.fired_set = {}
        /\ \A u \in 1..MaxEvents : hist.fire_count[u] <= 1
        /\ (last_tick.op = "tick" /\ ~last_tick.raised) =>
              \A i \in 1..Len(LoopEngine.events) :
                  LET fired == hist.fire_count[LoopEngine.events[i].uid]
                  IN  IF LoopEngine.events[i].time_offset <= last_tick.sim_time - scenario_start
                      THEN fired = 1 /\ i \in LoopEngine.fired_set
                      ELSE fired = 0 /\ i \notin LoopEngine.fired_set

\* the restart arrived in the middle of a tick that had fired events, and
\* the loop has since fired the whole timeline again
C10_Witness ==
    /\ hist.resets >= 1
    /\ last_tick.op = "tick"
    /\ ~last_tick.raised
    /\ total_events(LoopEngine) = MaxEvents
    /\ is_complete(LoopEngine)
    /\ \A u \in 1..MaxEvents : hist.fire_count[u] = 1
    /\ Len(ws.event_history) > MaxEvents

\* ================================================================ the registry and its callers

\* the registry is alone here: no clock, scenario or loop is running
InitRegistry ==
    /\ ClockAtRest
    /\ WorldAtRest
    /\ EngineAtRest
    /\ LoopAtRest
    /\ RegistryAtRest
    /\ RunAtRest
    /\ outbound = NoOutbound

\* register() is a plain method: a caller may run it whenever the fan-out
\* coroutine is suspended at an await, too
RegistryRegister ==
    /\ Len(registry.transports) < MaxAdapters
    /\ \E adapter \in AdapterNames : registry' = register(registry, adapter)
    /\ UNCHANGED <<clockVars, worldVars, engineVars, loopVars, run>>

RegistryPushBegin ==
    /\ registry.pc \in {"idle", "returned"}
    /\ \E method \in PushMethods : registry' = push_begin(registry, method)
    /\ UNCHANGED <<clockVars, worldVars, engineVars, loopVars, run>>

RegistryPushOne ==
    /\ registry.pc = "iterating"
    /\ registry.i <= Len(registry.transports)
    /\ \E outcome \in Outcomes : registry' = push_one(registry, outcome)
    /\ UNCHANGED <<clockVars, worldVars, engineVars, loopVars, run>>

RegistryPushEnd ==
    /\ registry.pc = "iterating"
    /\ registry.i > Len(registry.transports)
    /\ registry' = push_end(registry)
    /\ UNCHANGED <<clockVars, worldVars, engineVars, loopVars, run>>

NextRegistry ==
    \/ RegistryRegister
    \/ RegistryPushBegin
    \/ RegistryPushOne
    \/ RegistryPushEnd

SpecRegistry == InitRegistry /\ [][NextRegistry]_vars

\* C6: a fan-out call invokes its method on every registered adapter exactly
\* once, in registration order; an adapter that raises is logged and passed
\* over, the adapters after it are still invoked, and the call does not raise.
C6_FanOutReachesEveryAdapter ==
    /\ ~registry.raised
    /\ registry.pc # "idle" =>
          /\ Len(registry.calls) = registry.i - 1
          /\ \A k \in 1..Len(registry.calls) :
                /\ registry.calls[k].adapter = registry.transports[k]
                /\ registry.calls[k].method = registry.method
          /\ registry.warnings =
                Cardinality({k \in 1..Len(registry.calls) :
                                registry.calls[k].outcome = "raises"})
    /\ registry.pc = "returned" =>
          /\ Len(registry.calls) = Len(registry.at_return)
          /\ \A k \in 1..Len(registry.at_return) :
                registry.calls[k].adapter = registry.at_return[k]

\* a fan-out call returned after its first adapter raised and a later one
\* was still invoked
C6_Witness ==
    /\ registry.pc = "returned"
    /\ Len(registry.at_return) >= 2
    /\ Len(registry.calls) = Len(registry.at_return)
    /\ registry.calls[1].outcome = "raises"

\* ================================================================ the cancel signal and run()'s cleanup

\* run_simulator.py:358-359  "for adapter in adapters: await adapter.disconnect()":
\* the adapter at position i is awaited outside any try, so an exception it
\* raises leaves run() with the adapters after it never reached
disconnect_one(r, outcome) ==
    IF outcome = "raises"
    THEN [r EXCEPT !.pc = "raised"]
    ELSE [r EXCEPT !.disconnected = Append(@, Adapters[r.i]), !.i = @ + 1,
                   !.pc = IF r.i = Len(Adapters) THEN "stopped" ELSE "disconnect"]

\* run_simulator.py:325-328  SIGINT / SIGTERM: loop.add_signal_handler(sig, stop.set)
\* runs between two steps of the event loop, while run() awaits its tick loop
StopSignal ==
    /\ run.pc = "loop"
    /\ LoopSuspended
    /\ ~run.stop
    /\ run' = [run EXCEPT !.stop = TRUE]
    /\ UNCHANGED <<clockVars, worldVars, engineVars, loopVars, registry>>

\* run_simulator.py:58  "while not stop_event.is_set()" is false: the loop returns
LoopReturn ==
    /\ loop.pc = "top"
    /\ run.stop
    /\ loop' = [loop EXCEPT !.pc = "done"]
    /\ UNCHANGED <<clockVars, worldVars, engineVars, event_engine, noise_cache, aviation, unitVars, ws,
                   registry, run>>

\* run_simulator.py:347-356  simulation_loop has returned: clock.pause() and
\* the summary
RunCleanup ==
    /\ run.pc = "loop"
    /\ loop.pc = "done"
    /\ clock' = pause(clock, monotonic)
    /\ run' = [run EXCEPT !.pc = "disconnect"]
    /\ UNCHANGED <<monotonic, worldVars, engineVars, loopVars, registry>>

\* run_simulator.py:358-359  one adapter's disconnect() is awaited
RunDisconnect ==
    /\ run.pc = "disconnect"
    /\ \E outcome \in Outcomes : run' = disconnect_one(run, outcome)
    /\ UNCHANGED <<clockVars, worldVars, engineVars, loopVars, registry>>

\* run_simulator.py:333-342  an exception leaving simulation_loop leaves
\* run() at its await: none of the cleanup runs
RunRaise ==
    /\ run.pc = "loop"
    /\ loop.pc = "crashed"
    /\ run' = [run EXCEPT !.pc = "raised"]
    /\ UNCHANGED <<clockVars, worldVars, engineVars, loopVars, registry>>

NextStop ==
    \/ LoopIteration
    \/ LoopPush
    \/ LoopWake
    \/ WallAdvance
    \/ StopSignal
    \/ LoopReturn
    \/ RunCleanup
    \/ RunDisconnect
    \/ RunRaise

SpecStop == InitLoop /\ [][NextStop]_vars

\* C11: once the stop event is set the loop starts no further tick and
\* returns; when run() has ended after that, the clock is paused and
\* disconnect() was called on every adapter, also when the disconnect of
\* another adapter failed.
C11_StopDisconnectsEveryAdapter ==
    /\ [](run.stop => loop.pc \in {"top", "push", "sleep", "done"})
    /\ [][run.stop => loop'.tick_count <= loop.tick_count + (IF loop.pc = "push" THEN 1 ELSE 0)]_vars
    /\ []((run.stop /\ run.pc \in {"stopped", "raised"}) =>
            /\ ~clock.running
            /\ \A a \in 1..Len(Adapters) :
                  \E k \in 1..Len(run.disconnected) : run.disconnected[k] = Adapters[a])

\* ================================================================ deployments

\* deploy and respond orders with a destination: the patrol vessel sent four
\* cells away, the officer sent three cells away, and the officer sent to
\* the cell he already stands in
DeployCatalog(uid, t) ==
    { ScenarioEvent(uid, t, action, order[1], <<>>, NONE, order[2]) :
        action \in {"deploy", "respond"},
        order \in {<<"P", 4>>, <<"G", 5>>, <<"G", 2>>} }

\* event u of a timeline is timed at offset u (or the largest offset)
DeployTimelines ==
    UNION { { tl \in [1..n -> UNION {DeployCatalog(u, IF u <= MaxOffset THEN u ELSE MaxOffset) :
                                        u \in 1..n}] :
                \A u \in 1..n : tl[u].uid = u } : n \in 1..MaxEvents }

InitDeploy ==
    /\ ClockAtRest
    /\ WorldAtRest
    /\ \E tl \in DeployTimelines :
          engines = [r \in EngineRefs |-> EventEngine(tl)]
    /\ last_tick = NoTick
    /\ hist = NoHist
    /\ LoopAtRest
    /\ RegistryAtRest
    /\ RunAtRest
    /\ outbound = NoOutbound

SpecDeploy == InitDeploy /\ [][NextEngine]_vars

\* deploy / respond events with a destination that the latest tick applied
DeploysApplied ==
    {k \in 1..Len(last_tick.applied) :
        /\ event_of(last_tick.applied[k].uid).action \in {"deploy", "respond"}
        /\ event_of(last_tick.applied[k].uid).destination # NoDest}

\* the deploy speed of an entity type, in tenths of a knot: 25 kt when the
\* type's maximum is at most 6 kt, else 0.9 x the maximum
ExpectedDeploySpeed(entity_type) ==
    LET max_speed == ENTITY_TYPES[entity_type].speed_range[2]
    IN  IF max_speed <= 60 THEN 250 ELSE (max_speed * 9) \div 10

\* the route bound by applied record a is the two-waypoint route from the
\* entity's position to the destination, anchored at the firing sim time,
\* that takes duration to travel, and the entity is RESPONDING
DeployRoute(a, duration) ==
    /\ a.bound
    /\ a.kind = "waypoint"
    /\ a.m.scenario_start = last_tick.sim_time
    /\ Len(a.m.waypoints) = 2
    /\ a.m.waypoints[1].pos = a.position
    /\ a.m.waypoints[1].time_offset = 0
    /\ a.m.waypoints[2].pos = event_of(a.uid).destination
    /\ a.m.waypoints[2].time_offset = duration
    /\ a.status = "RESPONDING"

\* C12 (as stated): a deploy or respond event with a destination binds the
\* two-waypoint route whose travel duration is distance / deploy_speed.
C12_DeployDurationIsDistanceOverSpeed ==
    \A k \in DeploysApplied :
        LET a == last_tick.applied[k]
            dist == geodesic(a.position, event_of(a.uid).destination)
        IN  DeployRoute(a, (dist * CellRate) \div ExpectedDeploySpeed(a.entity_type))

\* C12 (amended): a deploy or respond event with a destination binds the
\* two-waypoint route whose travel duration is distance / deploy_speed when
\* the destination is away from the entity's position, and 30 minutes when
\* the entity is already there.
C12_DeployBuildsWaypointRoute ==
    \A k \in DeploysApplied :
        LET a == last_tick.applied[k]
            dist == geodesic(a.position, event_of(a.uid).destination)
        IN  DeployRoute(a, IF dist > 0
                           THEN (dist * CellRate) \div ExpectedDeploySpeed(a.entity_type)
                           ELSE HalfHour)

\* one tick sent the officer to the cell he stands in and the patrol vessel
\* four cells away
C12_Witness ==
    /\ \E k \in DeploysApplied :
          /\ last_tick.applied[k].target_id = "G"
          /\ event_of(last_tick.applied[k].uid).destination = last_tick.applied[k].position
    /\ \E k \in DeploysApplied :
          /\ last_tick.applied[k].target_id = "P"
          /\ last_tick.applied[k].m.waypoints[2].time_offset = 2

\* ================================================================ lockdown and secure

\* A scenario with an aircraft: the light aircraft A starts airborne
\* (metadata on_ground: false) on a route flown at 1000 ft, and the suspect
\* vessel T sails its route.  Every entity has a route, so an entity without
\* a binding has been locked down or secured.
AirEntities ==
    [ A |-> [entity_id |-> "A", entity_type |-> "CIVILIAN_LIGHT", domain |-> "AIR",
             status |-> "ACTIVE", position |-> 0, altitude_m |-> 1, speed_knots |-> 900,
             on_ground |-> FALSE, sidc |-> "SNAP------"],
      T |-> LoadedEntities["T"] ]

AirMovements ==
    << [id |-> "A", m |-> WaypointMovement(<<Waypoint(0, 1, 900, 0), Waypoint(18, 1, 900, 2)>>, 0)],
       [id |-> "T", m |-> WaypointMovement(<<Waypoint(5, 0, 50, 0), Waypoint(6, 0, 50, 2)>>, 0)] >>

\* lockdown and secure orders for either entity, and a deployment that binds
\* the vessel to a new route
LockdownCatalog(uid, t) ==
    { ScenarioEvent(uid, t, action, target, <<>>, NONE, NoDest) :
        action \in {"lockdown", "secure"}, target \in {"A", "T"} }
    \cup { ScenarioEvent(uid, t, "deploy", "T", <<>>, NONE, 4) }

\* event u of a timeline is timed at offset u - 1 (or the largest offset)
LockdownTimelines ==
    UNION { { tl \in [1..n -> UNION {LockdownCatalog(u, IF u - 1 <= MaxOffset THEN u - 1
                                                         ELSE MaxOffset) : u \in 1..n}] :
                \A u \in 1..n : tl[u].uid = u } : n \in 1..MaxEvents }

InitLockdown ==
    /\ clock = start(SimulationClock(1), 0)
    /\ monotonic = 0
    /\ objects = AirEntities
    /\ store = [id \in DOMAIN AirEntities |-> id]
    /\ movements = AirMovements
    /\ \E tl \in LockdownTimelines :
          engines = [r \in EngineRefs |-> EventEngine(tl)]
    /\ last_tick = NoTick
    /\ hist = NoHist
    /\ LoopAtRest
    /\ RegistryAtRest
    /\ RunAtRest
    /\ outbound = NoOutbound

NextLockdown ==
    \/ LoopIteration
    \/ LoopPush
    \/ LoopWake
    \/ WallAdvance

SpecLockdown == InitLockdown /\ [][NextLockdown]_vars

\* lockdown / secure events the latest tick applied
LockdownsApplied ==
    {k \in 1..Len(last_tick.applied) :
        event_of(last_tick.applied[k].uid).action \in {"lockdown", "secure"}}

\* right after the order was applied: no binding, status ACTIVE, speed 0
LockdownApplied ==
    \A k \in LockdownsApplied :
        /\ ~last_tick.applied[k].bound
        /\ last_tick.applied[k].status = "ACTIVE"
        /\ last_tick.applied[k].speed_knots = 0

\* a pass of the loop that ran a tick
IsTick == loop.pc = "top" /\ loop'.pc \in {"push", "crashed"}

\* a tick that entity id enters and leaves without a binding leaves its
\* stored position (cell and altitude) as it was
UnboundStaysPut(id) ==
    (IsTick /\ ~mov_has(movements, id) /\ ~mov_has(movements', id)) =>
        /\ objects'[store'[id]].position = objects[store[id]].position
        /\ objects'[store'[id]].altitude_m = objects[store[id]].altitude_m

\* C13: when a lockdown or secure event fires, the target's binding is
\* removed from the movements map, its status is ACTIVE and its speed_knots
\* is 0; on every later tick, until another event rebinds it, no strategy is
\* queried for that entity and its stored position does not change.
C13_LockdownHoldsPosition ==
    /\ []LockdownApplied
    /\ [][\A id \in DOMAIN AirEntities : UnboundStaysPut(id)]_vars

\* ================================================================ orders: pursue, reclassify, unknown targets

\* the reclassify entry of test_event_engine.py:211-216 for the suspect vessel
Reclassify == [reclassify |-> [targets |-> <<"T">>, new_type |-> "HOSTILE_VESSEL"]]

\* orders a scenario file can hold: an intercept and a pursue order for the
\* patrol vessel, a lockdown whose first target id the store does not hold,
\* an activation of an id the store does not hold, and a reclassification
\* of the suspect vessel without and with an action
OrderCatalog(uid, t) ==
    { ScenarioEvent(uid, t, "intercept", "P", <<>>, "T", NoDest),
      ScenarioEvent(uid, t, "pursue", "P", <<>>, "T", NoDest),
      ScenarioEvent(uid, t, "lockdown", NONE, <<"X", "T">>, NONE, NoDest),
      ScenarioEvent(uid, t, "activate", "X", <<>>, NONE, NoDest),
      [ScenarioEvent(uid, t, NONE, NONE, <<>>, NONE, NoDest) EXCEPT !.metadata = Reclassify],
      [ScenarioEvent(uid, t, "activate", "T", <<>>, NONE, NoDest)
          EXCEPT !.metadata = Reclassify] }

\* event u of a timeline is timed at offset u - 1 (or the largest offset)
OrderTimelines ==
    UNION { { tl \in [1..n -> UNION {OrderCatalog(u, IF u - 1 <= MaxOffset THEN u - 1
                                                     ELSE MaxOffset) : u \in 1..n}] :
                \A u \in 1..n : tl[u].uid = u } : n \in 1..MaxEvents }

InitOrders ==
    /\ ClockAtRest
    /\ WorldAtRest
    /\ \E tl \in OrderTimelines :
          engines = [r \in EngineRefs |-> EventEngine(tl)]
    /\ last_tick = NoTick
    /\ hist = NoHist
    /\ LoopAtRest
    /\ RegistryAtRest
    /\ RunAtRest
    /\ outbound = NoOutbound

SpecOrders == InitOrders /\ [][NextEngine]_vars

\* pursue events with an intercept_target that the latest tick applied to an
\* entity of the store
PursuesApplied ==
    {k \in 1..Len(last_tick.applied) :
        /\ event_of(last_tick.applied[k].uid).action = "pursue"
        /\ event_of(last_tick.applied[k].uid).intercept_target # NONE}

\* C14: an event with action pursue has the same effect as intercept: after
\* it fires, movements[target] is an Intercept strategy pursuing
\* intercept_target and the target entity's status is INTERCEPTING.
C14_PursueIsIntercept ==
    \A k \in PursuesApplied :
        LET a == last_tick.applied[k]
        IN  /\ a.bound
            /\ a.kind = "intercept"
            /\ a.m_target = event_of(a.uid).intercept_target
            /\ a.status = "INTERCEPTING"

\* events with a reclassify entry among those the latest tick fired
ReclassifiesFired ==
    {i \in FiredNow : "reclassify" \in DOMAIN TheEngine.events[i].metadata}

\* C15: when an event whose metadata carries a reclassify entry fires (with
\* or without an action), every entity id listed in
\* metadata.reclassify.targets has its entity_type replaced by the new type
\* and its sidc re-derived for that type.
C15_ReclassifyChangesType ==
    \A i \in ReclassifiesFired :
        LET entry == TheEngine.events[i].metadata.reclassify
        IN  \A k \in 1..Len(entry.targets) :
                LET ref == get_entity(store, entry.targets[k])
                IN  ref # NONE =>
                        /\ objects[ref].entity_type = entry.new_type
                        /\ objects[ref].sidc = ENTITY_TYPES[entry.new_type].sidc

\* the target ids of an event that the store does not hold
unknown_ids(event) ==
    {target_ids(event)[k] : k \in 1..Len(target_ids(event))} \ DOMAIN store

\* the target ids of an event that the store holds
known_ids(event) ==
    {target_ids(event)[k] : k \in 1..Len(target_ids(event))} \cap DOMAIN store

\* events with an action that were due at the latest tick and name a target
\* id the store does not hold
DueWithUnknownTarget ==
    {i \in DueThen : TheEngine.events[i].action # NONE /\ unknown_ids(TheEngine.events[i]) # {}}

\* after a tick: such an event is fired, once in the epoch; the unknown ids
\* are in neither the store nor the movements map; every id of the event that
\* the store holds got the action applied
UnknownTargetSkipped ==
    last_tick.op = "tick" =>
        \A i \in DueWithUnknownTarget :
            LET event == TheEngine.events[i]
            IN  /\ i \in FiredNow
                /\ i \in TheEngine.fired_set
                /\ hist.fire_count[event.uid] = 1
                /\ \A id \in unknown_ids(event) :
                      id \notin DOMAIN store /\ ~mov_has(movements, id)
                /\ \A id \in known_ids(event) :
                      \E k \in 1..Len(last_tick.applied) :
                          /\ last_tick.applied[k].uid = event.uid
                          /\ last_tick.applied[k].target_id = id

\* a tick in which every due event names only ids the store does not hold
\* changes no entity, no store entry and no binding
OnlyUnknownChangesNothing ==
    ( /\ last_tick'.op = "tick"
      /\ last_tick'.newly_fired # <<>>
      /\ \A k \in 1..Len(last_tick'.newly_fired) :
            known_ids(TheEngine.events[last_tick'.newly_fired[k]]) = {} )
    => UNCHANGED <<objects, store, movements>>

\* C16: when a fired event names a target id that is not in the store, that
\* id is skipped with no change to the movements map or to any entity, the
\* remaining targets of the same event are still processed, and the event is
\* marked fired (returned by tick once and never retried in that epoch).
C16_UnknownTargetSkipped ==
    /\ []UnknownTargetSkipped
    /\ [][OnlyUnknownChangesNothing]_vars

\* the lockdown naming X and then T fired: T was locked down, and an earlier
\* tick had already fired the activation of X alone
C16_Witness ==
    /\ last_tick.op = "tick"
    /\ \E i \in FiredNow :
          /\ TheEngine.events[i].targets = <<"X", "T">>
          /\ ~mov_has(movements, "T")
          /\ objects[store["T"]].speed_knots = 0
    /\ \E j \in last_tick.pre_fired_set : TheEngine.events[j].target = "X"

\* ================================================================ properties of the clock

\* the step is a call of set_speed(m)
IsSetSpeed(m) == clock' = set_speed(clock, m, monotonic) /\ monotonic' = monotonic

\* C17: set_speed(s) does not change the elapsed sim time at the instant of
\* the call, whether the clock is running or paused: time accumulated before
\* the call is kept at the old rate and only wall time after the call is
\* scaled by s; while paused, elapsed stays exactly equal to its value before
\* the call.
C17_SetSpeedKeepsElapsed ==
    [][\A m \in Multipliers :
          IsSetSpeed(m) =>
              /\ get_elapsed(clock', monotonic') = get_elapsed(clock, monotonic)
              /\ \A d \in 0..MaxWall :
                    get_elapsed(clock', monotonic + d) =
                        get_elapsed(clock, monotonic) + (IF clock.running THEN d * m ELSE 0)]_vars

\* the clock ran one unit of wall time at speed 1 and one at speed 2
C17_Witness ==
    /\ clock.running
    /\ clock.speed = 2
    /\ clock.wall_start = 1
    /\ monotonic = 2
    /\ get_elapsed(clock, monotonic) = 3

\* the step is a call of pause() on a running clock
IsPause == clock.running /\ clock' = pause(clock, monotonic) /\ monotonic' = monotonic

\* the step is a call of start() or resume() on a paused clock
IsRestart ==
    /\ ~clock.running
    /\ clock' = start(clock, monotonic) \/ clock' = resume(clock, monotonic)
    /\ monotonic' = monotonic

\* C18: after pause() on a running clock, get_sim_time() returns the same
\* value on every later read however much wall time passes, until start() or
\* resume(); after resume the elapsed time continues from the paused value (it
\* neither restarts from 0 nor counts the paused wall interval), and
\* start()/resume() on an already running clock changes nothing.
C18_PauseFreezesSimTime ==
    /\ [][IsPause =>
             /\ ~clock'.running
             /\ get_sim_time(clock', monotonic') = get_sim_time(clock, monotonic)]_vars
    /\ [][(~clock.running /\ ~clock'.running) =>
             get_sim_time(clock', monotonic') = get_sim_time(clock, monotonic)]_vars
    /\ [][IsRestart =>
             /\ clock'.running
             /\ \A d \in 0..MaxWall :
                   get_elapsed(clock', monotonic + d) =
                       get_elapsed(clock, monotonic) + d * clock.speed]_vars
    /\ [](clock.running =>
             /\ start(clock, monotonic) = clock
             /\ resume(clock, monotonic) = clock)

\* the clock was paused after one unit of sim time and has been read again
\* one unit of wall time later
C18_Witness ==
    /\ ~clock.running
    /\ clock.speed = 1
    /\ clock.accumulated_sim = 1
    /\ monotonic = 2

\* ====================================================== the movement phase
\* at sensor resolution.  Latitude and longitude are in millionths of a
\* degree, noise offsets in centimetres, the speed offset in ten-thousandths,
\* headings and the heading offset in hundredths of a degree, speeds in
\* tenths of a knot.

\* x * num / den, rounded towards zero
scale(x, num, den) ==
    IF x >= 0 THEN (x * num) \div den ELSE -(((-x) * num) \div den)

\* max(lo, min(hi, x))
clamp(lo, hi, x) == IF x < lo THEN lo ELSE IF x > hi THEN hi ELSE x

\* entity.py:32-38
EntityStatus == {"ACTIVE", "IDLE", "RESPONDING", "INTERCEPTING", "RTB"}

\* noise.py:23-43  PositionNoise.__init__; decay is in hundredths
PositionNoise(position_noise_m, speed_noise_pct, heading_noise_deg, decay, step_size) ==
    [max_amplitude_m |-> position_noise_m, speed_pct |-> speed_noise_pct,
     heading_sigma |-> heading_noise_deg, decay |-> decay, step_size |-> step_size,
     noise_north_m |-> 0, noise_east_m |-> 0, speed_offset |-> 0, heading_offset |-> 0]

\* noise.py:92-115  PositionNoise.for_domain
for_domain(domain) ==
    CASE domain = "AIR" -> PositionNoise(5000, 100, 100, 90, 500)
      [] domain = "GROUND_VEHICLE" -> PositionNoise(500, 300, 100, 95, 50)
      [] domain = "PERSONNEL" -> PositionNoise(300, 500, 500, 95, 30)
      [] OTHER -> PositionNoise(1500, 200, 200, 92, 200)

\* 1000 * math.cos(math.radians(lat)), by latitude band: the value at 5
\* degrees below 10 degrees, at 17 degrees below 25, at 60 degrees above
cos_milli(lat) ==
    LET a == IF lat < 0 THEN -lat ELSE lat
    IN  IF a < 10000000 THEN 996 ELSE IF a < 25000000 THEN 956 ELSE 500

\* The values rng.gauss(0, sigma) returns in one call of apply, as multiples
\* of sigma: the four draws are independent reals; these are five of them.
GaussDraws ==
    {[north |-> n, east |-> n, speed |-> s, heading |-> s] : n \in {-3, 3}, s \in {-3, 3}}
        \cup {[north |-> 0, east |-> 0, speed |-> 0, heading |-> 0]}

\* noise.py:45-90  PositionNoise.apply with the draws g: the PositionNoise
\* object after the call and the MovementState it returns
apply(noise, state, g) ==
    LET north == scale(clamp(-noise.max_amplitude_m, noise.max_amplitude_m,
                             noise.noise_north_m + g.north * noise.step_size),
                       noise.decay, 100)
        east == scale(clamp(-noise.max_amplitude_m, noise.max_amplitude_m,
                            noise.noise_east_m + g.east * noise.step_size),
                      noise.decay, 100)
        dlat == scale(north, 9, 100)
        dlon == scale(east, 9000, 100 * cos_milli(state.lat))
        speed_offset == scale(clamp(-3 * noise.speed_pct, 3 * noise.speed_pct,
                                    noise.speed_offset
                                       + scale(g.speed * noise.speed_pct, 3, 10)),
                              95, 100)
        noisy_speed == state.speed_knots + scale(state.speed_knots * speed_offset, 1, 10000)
        heading_offset == scale(clamp(-3 * noise.heading_sigma, 3 * noise.heading_sigma,
                                      noise.heading_offset
                                         + scale(g.heading * noise.heading_sigma, 3, 10)),
                                95, 100)
    IN  [noise |-> [noise EXCEPT !.noise_north_m = north, !.noise_east_m = east,
                                 !.speed_offset = speed_offset,
                                 !.heading_offset = heading_offset],
         state |-> [lat |-> state.lat + dlat, lon |-> state.lon + dlon,
                    heading_deg |-> (state.heading_deg + heading_offset) % 36000,
                    speed_knots |-> IF noisy_speed < 0 THEN 0 ELSE noisy_speed]]

\* terrain.py:72-92  find_nearest_valid_point: the land mask decides which
\* ring point is the first valid one, or that none is.  The outcomes kept are
\* None (the empty tuple) and the points of the first and the last ring at
\* angles 0 and pi.
find_nearest_valid_point(lat, lon) ==
    {<<>>} \cup {<<lat, lon + d>> : d \in {-50000, -10000, 10000, 50000}}

\* run_simulator.py:79-87  the position written to the entity: the noisy one,
\* or the terrain fix when the noisy one is on the wrong surface
final_positions(entity, noisy_state) ==
    LET noisy == <<noisy_state.lat, noisy_state.lon>>
    IN  IF ~entity.skip_terrain_check
           /\ entity.domain \in {"MARITIME", "GROUND_VEHICLE", "PERSONNEL"}
        THEN {noisy} \cup (find_nearest_valid_point(noisy[1], noisy[2]) \ {<<>>})
        ELSE {noisy}

\* entity.py:86-103  Entity.update_position
update_position(entity, latitude, longitude, heading_deg, speed_knots) ==
    [entity EXCEPT !.latitude = latitude, !.longitude = longitude,
                   !.heading_deg = heading_deg, !.speed_knots = speed_knots]

\* The entities followed: a patrol boat and a patrol aircraft off Sabah
\* (5 N 118 E), and an aircraft over Taveuni, Fiji, on the 180th meridian
\* (17 S 180 E), positions ScenarioLoader.validate accepts (loader.py:595-598).
NavEntities ==
    {[entity_id |-> "boat", domain |-> "MARITIME", status |-> "ACTIVE",
      skip_terrain_check |-> FALSE,
      latitude |-> 5000000, longitude |-> 118000000, heading_deg |-> 0, speed_knots |-> 0],
     [entity_id |-> "plane", domain |-> "AIR", status |-> "ACTIVE",
      skip_terrain_check |-> FALSE,
      latitude |-> 5000000, longitude |-> 118000000, heading_deg |-> 0, speed_knots |-> 0],
     [entity_id |-> "fiji", domain |-> "AIR", status |-> "ACTIVE",
      skip_terrain_check |-> FALSE,
      latitude |-> -17000000, longitude |-> 180000000, heading_deg |-> 0, speed_knots |-> 0]}

\* movement.get_state(sim_time) for an entity holding station on its waypoint
\* (speed 0, heading kept), or passing it northbound or on heading 359.9 at
\* 12 knots: waypoint.py, orbit.py and intercept.py return headings in [0, 360)
StrategyStates(entity) ==
    {[lat |-> e.latitude, lon |-> e.longitude, heading_deg |-> h, speed_knots |-> s] :
        e \in {x \in NavEntities : x.entity_id = entity.entity_id},
        h \in {0, 35990}, s \in {0, 120}}

\* run_simulator.py:66-103  one pass of the loop body for the entity followed
MoveEntity ==
    /\ nav.passes < MaxTicks
    /\ \E state \in StrategyStates(nav.entity), g \in GaussDraws :
       \E r \in {apply(nav.noise, state, g)} :
       \E final \in final_positions(nav.entity, r.state) :
           nav' = [entity |-> update_position(nav.entity, final[1], final[2],
                                              r.state.heading_deg, r.state.speed_knots),
                   noise |-> r.noise,
                   passes |-> nav.passes + 1]
    /\ UNCHANGED <<clockVars, worldVars, engineVars, event_engine, loop, noise_cache,
                   aviation, listener, threads, pursuit, outbound, ws, registry, run>>

\* event_engine.py:140-191  an event sets the status of the entity followed
NavEvent ==
    /\ nav.passes < MaxTicks
    /\ \E status \in EntityStatus \ {nav.entity.status} :
           nav' = [nav EXCEPT !.entity.status = status]
    /\ UNCHANGED <<clockVars, worldVars, engineVars, event_engine, loop, noise_cache,
                   aviation, listener, threads, pursuit, outbound, ws, registry, run>>

InitNoise ==
    /\ ClockAtRest
    /\ WorldAtRest
    /\ EngineAtRest
    /\ event_engine = [run |-> 1, loop |-> 1]
    /\ loop = [pc |-> "top", sim_time |-> 0, pending |-> <<>>, tick_count |-> 0,
               max_ticks |-> MaxTicks]
    /\ noise_cache = [d \in {} |-> {}]
    /\ aviation = AviationSimulator
    /\ listener = NoCalls
    /\ threads = NoThreads
    /\ pursuit = NoPursuit
    /\ ws = [event_history |-> <<>>, trail_history |-> {}]
    /\ RegistryAtRest
    /\ RunAtRest
    /\ outbound = NoOutbound
    /\ \E e \in NavEntities : nav = [entity |-> e, noise |-> for_domain(e.domain), passes |-> 0]

NextNoise == MoveEntity \/ NavEvent

SpecNoise == InitNoise /\ [][NextNoise]_vars

\* C19: after every pass of the movement phase the entity has its latitude in
\* [-90, 90], its longitude in [-180, 180], a speed of at least 0, a heading in
\* [0, 360) and a status of the EntityStatus enumeration.
C19_EntityInvariants ==
    /\ nav.entity.latitude \in -90000000..90000000
    /\ nav.entity.longitude \in -180000000..180000000
    /\ nav.entity.speed_knots >= 0
    /\ nav.entity.heading_deg \in 0..35999
    /\ nav.entity.status \in EntityStatus

\* ========================================================= entity_store.py
\* The Entity objects handed to the store: the scenario's, and a second object
\* made with the id of "P" (test_entity_store.py:29-33 adds two objects made
\* with one id)
StoreObjects ==
    [r \in EntityIds \cup {"P2"} |->
        IF r = "P2" THEN [LoadedEntities["P"] EXCEPT !.speed_knots = 200]
        ELSE LoadedEntities[r]]

\* entity_store.py:95-99  EntityStore.count
count(st) == Cardinality(DOMAIN st)

\* entity_store.py:90-93  _notify_update with one callback registered
notify_update(received, ref) == Append(received, ref)

\* add_entity that binds the id before it looks at the store
add_entity_overwriting(st, objs, received, ref) ==
    IF objs[ref].entity_id \in DOMAIN st
    THEN [store |-> upsert_entity(st, objs, ref), received |-> received,
          raised |-> "ValueError"]
    ELSE [store |-> upsert_entity(st, objs, ref),
          received |-> notify_update(received, ref), raised |-> NONE]

\* entity_store.py:28-34  EntityStore.add_entity: the store, what the callback
\* has received, and the error raised
add_entity(st, objs, received, ref) ==
    IF objs[ref].entity_id \in DOMAIN st
    THEN [store |-> st, received |-> received, raised |-> "ValueError"]
    ELSE [store |-> upsert_entity(st, objs, ref),
          received |-> notify_update(received, ref), raised |-> NONE]

\* entity_store.py:36-42  EntityStore.update_entity
update_entity(st, objs, received, ref) ==
    IF objs[ref].entity_id \notin DOMAIN st
    THEN [store |-> st, received |-> received, raised |-> "KeyError"]
    ELSE [store |-> upsert_entity(st, objs, ref),
          received |-> notify_update(received, ref), raised |-> NONE]

\* entity_store.py:70-75  EntityStore.remove_entity: no callback is called
remove_entity(st, received, entity_id) ==
    IF entity_id \notin DOMAIN st
    THEN [store |-> st, received |-> received, raised |-> "KeyError"]
    ELSE [store |-> [id \in (DOMAIN st) \ {entity_id} |-> st[id]],
          received |-> received, raised |-> NONE]

\* the listener after the store call op on entity_id returned r
called(op, entity_id, r) ==
    [received |-> r.received, calls |-> listener.calls + 1,
     last |-> [op |-> op, entity_id |-> entity_id, raised |-> r.raised]]

AddEntity ==
    /\ listener.calls < MaxStoreCalls
    /\ \E ref \in DOMAIN objects :
       \E r \in {add_entity(store, objects, listener.received, ref)} :
           /\ store' = r.store
           /\ listener' = called("add_entity", objects[ref].entity_id, r)
    /\ UNCHANGED <<clockVars, objects, movements, engineVars, event_engine, loop,
                   noise_cache, aviation, nav, threads, pursuit, outbound, ws, registry, run>>

UpdateEntity ==
    /\ listener.calls < MaxStoreCalls
    /\ \E ref \in DOMAIN objects :
       \E r \in {update_entity(store, objects, listener.received, ref)} :
           /\ store' = r.store
           /\ listener' = called("update_entity", objects[ref].entity_id, r)
    /\ UNCHANGED <<clockVars, objects, movements, engineVars, event_engine, loop,
                   noise_cache, aviation, nav, threads, pursuit, outbound, ws, registry, run>>

\* entity_store.py:44-48  EntityStore.upsert_entity
UpsertEntity ==
    /\ listener.calls < MaxStoreCalls
    /\ \E ref \in DOMAIN objects :
       \E r \in {[store |-> upsert_entity(store, objects, ref),
                  received |-> notify_update(listener.received, ref),
                  raised |-> NONE]} :
           /\ store' = r.store
           /\ listener' = called("upsert_entity", objects[ref].entity_id, r)
    /\ UNCHANGED <<clockVars, objects, movements, engineVars, event_engine, loop,
                   noise_cache, aviation, nav, threads, pursuit, outbound, ws, registry, run>>

RemoveEntity ==
    /\ listener.calls < MaxStoreCalls
    /\ \E entity_id \in EntityIds :
       \E r \in {remove_entity(store, listener.received, entity_id)} :
           /\ store' = r.store
           /\ listener' = called("remove_entity", entity_id, r)
    /\ UNCHANGED <<clockVars, objects, movements, engineVars, event_engine, loop,
                   noise_cache, aviation, nav, threads, pursuit, outbound, ws, registry, run>>

\* entity_store.py:22-26  an empty store with one update callback registered
InitStore ==
    /\ ClockAtRest
    /\ objects = StoreObjects
    /\ store = [id \in {} |-> NONE]
    /\ movements = LoadedMovements
    /\ EngineAtRest
    /\ LoopAtRest
    /\ RegistryAtRest
    /\ RunAtRest
    /\ outbound = NoOutbound

NextStore == AddEntity \/ UpdateEntity \/ UpsertEntity \/ RemoveEntity

SpecStore == InitStore /\ [][NextStore]_vars

\* the call made by this step is one the store must refuse
FailingStoreCall ==
    /\ listener'.calls = listener.calls + 1
    /\ \/ listener'.last.op = "add_entity" /\ listener'.last.entity_id \in DOMAIN store
       \/ listener'.last.op \in {"update_entity", "remove_entity"}
             /\ listener'.last.entity_id \notin DOMAIN store

\* C20: a store call that fails (add_entity with an id already present,
\* update_entity or remove_entity with an absent id) raises its error
\* (ValueError for add_entity, KeyError for the others), leaves the store's
\* contents and count as they were, and calls no update listener.
C20_FailedCallChangesNothing ==
    [][FailingStoreCall =>
          /\ listener'.last.raised
                = (IF listener'.last.op = "add_entity" THEN "ValueError" ELSE "KeyError")
          /\ store' = store
          /\ objects' = objects
          /\ count(store') = count(store)
          /\ listener'.received = listener.received]_vars

\* add_entity has just been refused for an id bound earlier by a call that
\* reached the listener
C20_Witness ==
    /\ listener.last.op = "add_entity"
    /\ listener.last.raised = "ValueError"
    /\ listener.last.entity_id \in DOMAIN store
    /\ Len(listener.received) > 0
    /\ count(store) > 0

\* the entity the listener was called with by the latest notifying call
last_received(l) == l.received[Len(l.received)]

\* this step is upsert_entity(e) directly after upsert_entity(e), same object e
SecondUpsert ==
    /\ listener.last.op = "upsert_entity"
    /\ listener'.last.op = "upsert_entity"
    /\ listener'.calls = listener.calls + 1
    /\ last_received(listener') = last_received(listener)

\* C21: upsert(e) directly after upsert(e) leaves the store as the first call
\* left it and does not change count; and after any sequence of add, update,
\* upsert and remove calls every entity of the store is held under its own
\* entity_id, so the store holds at most one entity per id and count is the
\* number of distinct ids present.
C21_UpsertIdempotentIdsUnique ==
    /\ [](\A ref \in DOMAIN objects :
            LET once == upsert_entity(store, objects, ref)
                twice == upsert_entity(once, objects, ref)
            IN  twice = once /\ count(twice) = count(once))
    /\ [](/\ \A id \in DOMAIN store : objects[store[id]].entity_id = id
          /\ count(store) = Cardinality({objects[store[id]].entity_id : id \in DOMAIN store}))
    /\ [][SecondUpsert => store' = store /\ count(store') = count(store)]_vars

\* upsert_entity of the second object made with the id of "P" has just
\* followed an upsert_entity of the same object, with another entity stored
C21_Witness ==
    /\ listener.last.op = "upsert_entity"
    /\ Len(listener.received) >= 2
    /\ listener.received[Len(listener.received)] = "P2"
    /\ listener.received[Len(listener.received) - 1] = "P2"
    /\ store["P"] = "P2"
    /\ count(store) = 2

\* ======================================== entity_store.py under threads
Threads == {1, 2}

\* on_update registrations (test_entity_store.py:116-126 registers two): the
\* first callback reads the entity back with store.get_entity and may raise,
\* the second records what it is called with
Callbacks == <<"reader", "recorder">>

WriteOps == {"add_entity", "update_entity", "upsert_entity"}

\* the calls a thread can make: the writes with an Entity object, the others
\* with an id or nothing
StoreCalls ==
    {[op |-> op, arg |-> ref] : op \in WriteOps, ref \in {"P", "P2", "T"}}
        \cup {[op |-> op, arg |-> id] : op \in {"remove_entity", "get_entity"},
                                         id \in {"P", "T"}}
        \cup {[op |-> op, arg |-> NONE] :
                 op \in {"count", "get_all_entities", "get_entities_by_domain"}}

\* what a call returns or raises
Returned(raised, refs, n) == [raised |-> raised, refs |-> refs, n |-> n]
NoResult == Returned(NONE, {}, -1)

\* the key a call works on
key_of(objs, c) == IF c.op \in WriteOps THEN objs[c.arg].entity_id ELSE c.arg

\* entity_store.py:28-75, 95-99  the call c made on the store st with nothing
\* else running: the store after it and what it returns
sequential(st, objs, c) ==
    CASE c.op = "add_entity" ->
            LET r == add_entity(st, objs, <<>>, c.arg)
            IN  [store |-> r.store, result |-> Returned(r.raised, {}, -1)]
      [] c.op = "update_entity" ->
            LET r == update_entity(st, objs, <<>>, c.arg)
            IN  [store |-> r.store, result |-> Returned(r.raised, {}, -1)]
      [] c.op = "upsert_entity" ->
            [store |-> upsert_entity(st, objs, c.arg), result |-> NoResult]
      [] c.op = "remove_entity" ->
            LET r == remove_entity(st, <<>>, c.arg)
            IN  [store |-> r.store, result |-> Returned(r.raised, {}, -1)]
      [] c.op = "get_entity" ->
            [store |-> st,
             result |-> Returned(NONE, {get_entity(st, c.arg)} \ {NONE}, -1)]
      [] c.op = "count" ->
            [store |-> st, result |-> Returned(NONE, {}, count(st))]
      [] c.op = "get_all_entities" ->
            [store |-> st, result |-> Returned(NONE, {st[id] : id \in DOMAIN st}, -1)]
      [] OTHER ->
            [store |-> st,
             result |-> Returned(NONE, {st[id] : id \in {i \in DOMAIN st :
                                           objs[st[i]].domain = "MARITIME"}}, -1)]

\* "with self._lock" entered without waiting for the lock
acquire_unlocked(lock, t) == TRUE

\* entity_store.py:30  "with self._lock": threading.Lock is handed to a thread
\* only while no thread holds it (0: free)
acquire(lock, t) == lock = 0

\* _notify_update called inside the with block
leave_notifying_inside(pc, notifies) ==
    CASE pc = "write" -> IF notifies THEN "notify" ELSE "release"
      [] pc = "notified" -> "release"
      [] OTHER -> "returned"

\* entity_store.py:30-34, 38-42, 46-48  the order of a call's steps: the
\* statement in the with block, the end of the with block, _notify_update
leave(pc, notifies) ==
    CASE pc = "write" -> "release"
      [] pc = "release" -> IF notifies THEN "notify" ELSE "returned"
      [] OTHER -> "returned"

\* a call that wrote and so calls _notify_update
notifies(a) == a.call.op \in WriteOps /\ a.result.raised = NONE

\* the point where the call of thread t takes effect: the call is made on the
\* sequential store and what it returns there is kept
takes_effect(th, t) ==
    LET r == sequential(th.abstract, objects, th.at[t].call)
    IN  [th EXCEPT !.abstract = r.store, !.at[t].expected = r.result]

threadRest == <<clockVars, objects, movements, engineVars, event_engine, loop,
                noise_cache, aviation, nav, listener, pursuit, outbound, ws, registry, run>>

\* a thread calls a store method
ThreadCall(t) ==
    /\ threads.at[t].pc \in {"idle", "returned"}
    /\ threads.calls < MaxThreadCalls
    /\ \E c \in StoreCalls :
          threads' = [threads EXCEPT !.calls = @ + 1,
                        !.at[t] = [pc |-> "acquire", call |-> c, nr |-> threads.calls + 1,
                                   cb |-> 0, result |-> NoResult, expected |-> NoResult]]
    /\ UNCHANGED <<store, threadRest>>

\* entity_store.py:30,38,46,52,57,72,98  with self._lock
ThreadAcquire(t) ==
    /\ threads.at[t].pc = "acquire"
    /\ acquire(threads.lock, t)
    /\ threads' = [threads EXCEPT !.lock = t, !.at[t].pc = "locked"]
    /\ UNCHANGED <<store, threadRest>>

\* the first statement inside the with block: the membership test of
\* add/update/remove, the assignment of upsert, the read of the others
ThreadLocked(t) ==
    /\ threads.at[t].pc = "locked"
    /\ \E a \in {threads.at[t]} :
       \E k \in {key_of(objects, a.call)} :
          IF a.call.op \in {"add_entity", "update_entity", "remove_entity"}
          THEN /\ store' = store
               /\ IF (a.call.op = "add_entity") = (k \in DOMAIN store)
                  THEN threads' = takes_effect(
                          [threads EXCEPT !.at[t].pc = "release",
                              !.at[t].result =
                                  Returned(IF a.call.op = "add_entity" THEN "ValueError"
                                           ELSE "KeyError", {}, -1)], t)
                  ELSE threads' = [threads EXCEPT !.at[t].pc = "write"]
          ELSE /\ store' = IF a.call.op = "upsert_entity"
                           THEN upsert_entity(store, objects, a.call.arg) ELSE store
               /\ threads' = takes_effect(
                     [threads EXCEPT !.at[t].pc =
                                         IF a.call.op = "upsert_entity"
                                         THEN leave("write", TRUE) ELSE "release",
                                     !.at[t].result = sequential(store, objects, a.call).result],
                     t)
    /\ UNCHANGED threadRest

\* entity_store.py:33, 41, 75  the assignment or the del after the test
ThreadWrite(t) ==
    /\ threads.at[t].pc = "write"
    /\ \E a \in {threads.at[t]} :
          /\ store' = IF a.call.op = "remove_entity"
                      THEN [id \in (DOMAIN store) \ {a.call.arg} |-> store[id]]
                      ELSE upsert_entity(store, objects, a.call.arg)
          /\ threads' = takes_effect(
                [threads EXCEPT !.at[t].pc = leave("write", a.call.op \in WriteOps)], t)
    /\ UNCHANGED threadRest

\* the end of the with block
ThreadRelease(t) ==
    /\ threads.at[t].pc = "release"
    /\ threads' = [threads EXCEPT !.lock = 0,
                                  !.at[t].pc = leave("release", notifies(threads.at[t]))]
    /\ UNCHANGED <<store, threadRest>>

\* entity_store.py:90-93  _notify_update calls the next callback: the reader
\* goes to store.get_entity, the recorder returns at once
ThreadNotify(t) ==
    /\ threads.at[t].pc = "notify"
    /\ \E a \in {threads.at[t]} :
          IF a.cb = Len(Callbacks)
          THEN threads' = [threads EXCEPT !.at[t].pc = leave("notified", TRUE)]
          ELSE IF Callbacks[a.cb + 1] = "reader"
          THEN threads' = [threads EXCEPT !.at[t].pc = "cb_acquire", !.at[t].cb = a.cb + 1]
          ELSE threads' = [threads EXCEPT !.at[t].cb = a.cb + 1,
                              !.delivered = Append(@, [nr |-> a.nr, cb |-> a.cb + 1,
                                                       ref |-> a.call.arg])]
    /\ UNCHANGED <<store, threadRest>>

\* the reader callback enters store.get_entity: with self._lock
CallbackAcquire(t) ==
    /\ threads.at[t].pc = "cb_acquire"
    /\ acquire(threads.lock, t)
    /\ threads' = [threads EXCEPT !.lock = t, !.at[t].pc = "cb_locked"]
    /\ UNCHANGED <<store, threadRest>>

\* the reader callback leaves get_entity and returns, or raises: an error in
\* a callback leaves _notify_update and the store call (entity_store.py:92-93
\* has no try)
CallbackReturn(t) ==
    /\ threads.at[t].pc = "cb_locked"
    /\ \E a \in {threads.at[t]}, raises \in BOOLEAN :
          threads' = [threads EXCEPT
              !.lock = 0,
              !.delivered = Append(@, [nr |-> a.nr, cb |-> a.cb, ref |-> a.call.arg]),
              !.at[t].pc = IF raises THEN leave("notified", TRUE) ELSE "notify",
              !.at[t].result = IF raises THEN Returned("CallbackError", {}, -1)
                               ELSE a.result]
    /\ UNCHANGED <<store, threadRest>>

InitThreads ==
    /\ ClockAtRest
    /\ objects = StoreObjects
    /\ store = [id \in {} |-> NONE]
    /\ movements = LoadedMovements
    /\ EngineAtRest
    /\ event_engine = [run |-> 1, loop |-> 1]
    /\ loop = [pc |-> "top", sim_time |-> 0, pending |-> <<>>, tick_count |-> 0,
               max_ticks |-> MaxTicks]
    /\ noise_cache = [d \in {} |-> {}]
    /\ aviation = AviationSimulator
    /\ nav = NoNav
    /\ listener = NoCalls
    /\ pursuit = NoPursuit
    /\ threads = [NoThreads EXCEPT
                    !.abstract = [id \in {} |-> NONE],
                    !.at = [t \in Threads |->
                              [pc |-> "idle", call |-> [op |-> NONE, arg |-> NONE], nr |-> 0,
                               cb |-> 0, result |-> NoResult, expected |-> NoResult]]]
    /\ ws = [event_history |-> <<>>, trail_history |-> {}]
    /\ RegistryAtRest
    /\ RunAtRest
    /\ outbound = NoOutbound

NextThreads ==
    \E t \in Threads :
        \/ ThreadCall(t)
        \/ ThreadAcquire(t)
        \/ ThreadLocked(t)
        \/ ThreadWrite(t)
        \/ ThreadRelease(t)
        \/ ThreadNotify(t)
        \/ CallbackAcquire(t)
        \/ CallbackReturn(t)

SpecThreads == InitThreads /\ [][NextThreads]_vars

\* every call that has taken effect returned what the sequential store returns
\* at that point, and the store is the sequential store
Linearized ==
    /\ store = threads.abstract
    /\ \A t \in Threads :
          threads.at[t].pc \in {"release", "notify", "cb_acquire", "cb_locked", "returned"}
             /\ threads.at[t].result.raised # "CallbackError"
          => threads.at[t].result = threads.at[t].expected

\* C22: under concurrent calls from several threads every store operation
\* takes effect atomically at one point between its call and its return: the
\* results of all calls and the store's contents are those of the operations
\* run one at a time in the order of these points.
C22_StoreLinearizable == Linearized

\* thread 1 called add_entity for an id while thread 2 was inside add_entity
\* for the same id; thread 2's call succeeded and has not returned yet, and
\* thread 1's has raised ValueError
C22_Witness ==
    /\ threads.at[1].call = [op |-> "add_entity", arg |-> "P"]
    /\ threads.at[2].call = [op |-> "add_entity", arg |-> "P2"]
    /\ threads.at[1].nr = 1
    /\ threads.at[2].nr = 2
    /\ threads.at[1].pc = "returned"
    /\ threads.at[1].result.raised = "ValueError"
    /\ threads.at[2].pc = "notify"
    /\ threads.at[2].result.raised = NONE

\* the calls of callback cb made for the store call numbered nr
deliveries(nr, cb) ==
    {i \in DOMAIN threads.delivered :
        threads.delivered[i].nr = nr /\ threads.delivered[i].cb = cb}

\* a thread inside _notify_update, or at the lock inside a callback, does not
\* hold the lock; the thread that holds it is at a statement of a with block
NotifiesOutsideLock ==
    /\ \A t \in Threads :
          threads.at[t].pc \in {"notify", "cb_acquire"} => threads.lock # t
    /\ \A t \in Threads :
          threads.lock = t => threads.at[t].pc \in {"locked", "write", "release", "cb_locked"}

\* a write call that returned without an error called every callback once,
\* with the Entity object it wrote
NotifiedOnce ==
    \A t \in Threads :
        threads.at[t].pc = "returned" /\ notifies(threads.at[t])
        => \A cb \in DOMAIN Callbacks :
              /\ Cardinality(deliveries(threads.at[t].nr, cb)) = 1
              /\ \A i \in deliveries(threads.at[t].nr, cb) :
                    threads.delivered[i].ref = threads.at[t].call.arg

\* C23: update listeners are invoked only after the store lock has been
\* released, so a listener that calls back into the store never waits for a
\* lock its own thread holds, and each successful add/update/upsert invokes
\* every registered update listener exactly once with the entity written.
C23_ListenersOutsideLock == NotifiesOutsideLock /\ NotifiedOnce

\* thread 1 has returned from a successful add_entity whose two callbacks were
\* called, the first of them having read the store back, while thread 2 is
\* inside a with block
C23_Witness ==
    /\ threads.at[1].pc = "returned"
    /\ threads.at[1].call = [op |-> "add_entity", arg |-> "P"]
    /\ threads.at[1].result.raised = NONE
    /\ Len(threads.delivered) = 2
    /\ threads.lock = 2

\* ===================================== intercept.py, one strategy on its own
\* intercept.py:113-126  the pursuer's position a call works from: the
\* store's, else the last one returned, else none (NoPos)
pursuer_position(m, st, objs) ==
    IF m.pursuer_id # NONE /\ get_entity(st, m.pursuer_id) # NONE
    THEN objs[get_entity(st, m.pursuer_id)].position
    ELSE m.last_pos

\* intercept.py:155-156  the call finds the pursuer within the radius
finds_intercept(m, st, objs) ==
    /\ pursuer_position(m, st, objs) # NoPos
    /\ get_entity(st, m.target_id) # NONE
    /\ geodesic(pursuer_position(m, st, objs), objs[get_entity(st, m.target_id)].position)
          <= intercept_radius

\* intercept.py:128  the call finds the target gone
finds_no_target(m, st, objs) ==
    pursuer_position(m, st, objs) # NoPos /\ get_entity(st, m.target_id) = NONE

interceptRest == <<clockVars, movements, engineVars, event_engine, loop, noise_cache,
                   aviation, nav, listener, threads, outbound, ws, registry, run>>

\* a get_state call, at the sim_time of the call before or one unit later
InterceptGetState ==
    /\ pursuit.calls < MaxGetStates
    /\ \E sim_time \in {IF pursuit.sim_time = NoTime THEN 0 ELSE pursuit.sim_time,
                        IF pursuit.sim_time = NoTime THEN 1 ELSE pursuit.sim_time + 1} :
       \E r \in {intercept_get_state(pursuit.m, store, objects, sim_time)} :
          pursuit' =
            [m |-> r.m, calls |-> pursuit.calls + 1, sim_time |-> sim_time,
             state |-> r.state, before |-> pursuit.state,
             repeats |-> IF sim_time = pursuit.sim_time /\ pursuit.stayed
                         THEN pursuit.repeats + 1 ELSE 0,
             stayed |-> TRUE,
             found |-> pursuit.found \/ finds_intercept(pursuit.m, store, objects),
             absent |-> finds_no_target(pursuit.m, store, objects),
             from |-> pursuer_position(pursuit.m, store, objects),
             latch |-> IF pursuit.latch = NoPos /\ pursuit.m.min_speed > 0
                          /\ finds_no_target(pursuit.m, store, objects)
                       THEN pursuer_position(pursuit.m, store, objects)
                       ELSE pursuit.latch]
    /\ UNCHANGED <<objects, store, interceptRest>>

\* run_simulator.py:90-103  the loop writes the returned state to the
\* pursuing entity and upserts it
InterceptFeedBack ==
    /\ pursuit.calls > 0
    /\ "P" \in DOMAIN store
    /\ pursuit.state.pos # objects[store["P"]].position
    /\ objects' = [objects EXCEPT ![store["P"]].position = pursuit.state.pos,
                                  ![store["P"]].speed_knots = pursuit.state.speed_knots]
    /\ pursuit' = [pursuit EXCEPT !.stayed = FALSE]
    /\ UNCHANGED <<store, interceptRest>>

\* the target's own strategy moves it by a cell
TargetMoves ==
    /\ "T" \in DOMAIN store
    /\ \E c \in {objects["T"].position - 1, objects["T"].position + 1} \cap 0..MaxCell :
          objects' = [objects EXCEPT !["T"].position = c]
    /\ pursuit' = [pursuit EXCEPT !.stayed = FALSE]
    /\ UNCHANGED <<store, interceptRest>>

\* store.remove_entity(target)
TargetLeaves ==
    /\ "T" \in DOMAIN store
    /\ store' = remove_entity(store, <<>>, "T").store
    /\ pursuit' = [pursuit EXCEPT !.stayed = FALSE]
    /\ UNCHANGED <<objects, interceptRest>>

\* store.add_entity(target)
TargetReturns ==
    /\ "T" \notin DOMAIN store
    /\ store' = add_entity(store, objects, <<>>, "T").store
    /\ pursuit' = [pursuit EXCEPT !.stayed = FALSE]
    /\ UNCHANGED <<objects, interceptRest>>

\* a vessel or a fixed-wing aircraft at 10 kt (one cell per time unit) set on
\* the target "T", reading its own position from the store or keeping it
InitIntercept ==
    /\ ClockAtRest
    /\ movements = LoadedMovements
    /\ EngineAtRest
    /\ event_engine = [run |-> 1, loop |-> 1]
    /\ loop = [pc |-> "top", sim_time |-> 0, pending |-> <<>>, tick_count |-> 0,
               max_ticks |-> MaxTicks]
    /\ noise_cache = [d \in {} |-> {}]
    /\ aviation = AviationSimulator
    /\ nav = NoNav
    /\ listener = NoCalls
    /\ threads = NoThreads
    /\ ws = [event_history |-> <<>>, trail_history |-> {}]
    /\ RegistryAtRest
    /\ RunAtRest
    /\ outbound = NoOutbound
    /\ \E c \in {0, 2} : objects = [LoadedEntities EXCEPT !["T"].position = c]
    /\ \E ids \in {EntityIds, EntityIds \ {"T"}} : store = [id \in ids |-> id]
    /\ \E pursuer_id \in {"P", NONE}, min_speed \in {0, 50} :
          pursuit = [m |-> InterceptMovement(100, "T", pursuer_id, min_speed),
                     calls |-> 0, sim_time |-> NoTime, state |-> MovementState(NoPos, 0, 0),
                     before |-> MovementState(NoPos, 0, 0),
                     repeats |-> 0, stayed |-> FALSE, found |-> FALSE, absent |-> FALSE,
                     from |-> NoPos, latch |-> NoPos]

NextIntercept ==
    InterceptGetState \/ InterceptFeedBack \/ TargetMoves \/ TargetLeaves \/ TargetReturns

SpecIntercept == InitIntercept /\ [][NextIntercept]_vars

\* C24: InterceptMovement.is_complete is true exactly when min_speed is 0 and
\* an earlier get_state call found the pursuer within the intercept radius of
\* the target; with min_speed > 0 it is always false; the intercepted flag is
\* never cleared, so is_complete never goes back to false.
C24_CompleteIffIntercepted ==
    /\ [](intercept_is_complete(pursuit.m)
            <=> (pursuit.m.min_speed = 0 /\ pursuit.found))
    /\ [](pursuit.m.min_speed > 0 => ~intercept_is_complete(pursuit.m))
    /\ [](pursuit.m.intercepted <=> pursuit.found)
    /\ [][/\ pursuit.m.intercepted => pursuit'.m.intercepted
          /\ intercept_is_complete(pursuit.m) => intercept_is_complete(pursuit'.m)]_vars

\* a vessel's call found the target within the radius, the target has since
\* moved two cells or more away, and a later call has been made
C24_Witness ==
    /\ pursuit.m.min_speed = 0
    /\ pursuit.found
    /\ intercept_is_complete(pursuit.m)
    /\ "T" \in DOMAIN store
    /\ geodesic(pursuit.from, objects["T"].position) >= 2
    /\ pursuit.calls >= 2
    /\ ~finds_intercept(pursuit.m, store, objects)

\* C25: for an Intercept strategy with min_speed > 0, the first get_state
\* that finds the target absent from the store latches the orbit centre at
\* the pursuer's position of that call; every later call that finds the
\* target absent keeps that centre and returns min_speed, and is_complete
\* stays false.  With min_speed = 0 such a call returns the pursuer's position
\* with speed 0.
C25_OrbitLatchedOnce ==
    /\ [](pursuit.m.min_speed > 0 => pursuit.m.orbit_center = pursuit.latch)
    /\ [](pursuit.m.min_speed > 0 /\ pursuit.absent
            => /\ pursuit.m.orbit_center # NoPos
               /\ pursuit.state.speed_knots = pursuit.m.min_speed
               /\ ~intercept_is_complete(pursuit.m))
    /\ [](pursuit.m.min_speed = 0 /\ pursuit.absent
            => /\ pursuit.state.pos = pursuit.from
               /\ pursuit.state.speed_knots = 0)
    /\ [][pursuit.m.orbit_center # NoPos
            => pursuit'.m.orbit_center = pursuit.m.orbit_center]_vars

\* a fixed-wing pursuer whose target left, came back and left again: the
\* latest call finds the target absent from a position that is not the
\* latched centre
C25_Witness ==
    /\ pursuit.m.min_speed > 0
    /\ pursuit.absent
    /\ pursuit.latch # NoPos
    /\ pursuit.from # pursuit.latch
    /\ pursuit.m.orbit_center = pursuit.latch

\* this step is a get_state call made with the sim_time of the call before,
\* the store unchanged since then and the target in it
RepeatCall ==
    /\ pursuit'.calls = pursuit.calls + 1
    /\ pursuit'.sim_time = pursuit.sim_time
    /\ pursuit.stayed
    /\ get_entity(store, pursuit.m.target_id) # NONE

\* C27: for an Intercept strategy with a stationary target and an unchanged
\* store, two successive get_state calls with the same sim_time return
\* identical states.
C27_SameTimeSameState ==
    [][RepeatCall => pursuit'.state = pursuit.state]_vars

\* C27 as the code has it: the second of two such calls moves the pursuer by
\* zero distance, returning the position the store holds for it (or the one
\* the strategy kept) with the speed and altitude of the first call; the two
\* states are identical when the first call did not advance the pursuer.
C27_RepeatCallStandsStill ==
    [][RepeatCall =>
          /\ pursuer_position(pursuit.m, store, objects) # NoPos
                => pursuit'.state.pos = pursuer_position(pursuit.m, store, objects)
          /\ pursuit'.state.speed_knots = pursuit.state.speed_knots
          /\ pursuit'.state.alt_m = pursuit.state.alt_m
          /\ pursuit.state.pos = pursuit.from \/ pursuit.from = NoPos
                => pursuit'.state = pursuit.state]_vars

\* the latest call repeated the sim_time of the call before it on an
\* unchanged store: it returned the pursuer's stored position, the call
\* before it a position one cell on
C27_Witness ==
    /\ pursuit.repeats = 1
    /\ get_entity(store, "T") # NONE
    /\ pursuit.state.pos = pursuit.from
    /\ pursuit.before.pos # pursuit.state.pos
    /\ pursuit.before.speed_knots = pursuit.state.speed_knots

\* ============================================ intercept.py, chase resolution
\* A pursuit over hours of sim time, on the plane tangent at the pursuer's
\* start: positions are <<east, north>> in units of 10 m (111 111 m per degree
\* as intercept.py:211-214 has it), speeds whole knots, times seconds.

ChaseSeconds == MaxChaseHours * 3600

\* sim seconds between two ticks: tick_interval_s x clock speed
TickPeriods == {30, 60, 120}

RECURSIVE isqrt_from(_, _)
isqrt_from(n, x) ==
    LET y == (x + n \div x) \div 2
    IN  IF y >= x THEN x ELSE isqrt_from(n, y)

isqrt(n) == IF n = 0 THEN 0 ELSE isqrt_from(n, n)

\* a / b rounded to the nearest integer, b > 0
round_div(a, b) ==
    IF a >= 0 THEN (2 * a + b) \div (2 * b) ELSE 0 - ((2 * (0 - a) + b) \div (2 * b))

\* intercept.py:155  geodesic(p, t).meters
dist_m(p, t) == isqrt((t[1] - p[1]) * (t[1] - p[1]) + (t[2] - p[2]) * (t[2] - p[2]))

move_m_kmh(speed_knots, dt_s) == round_div(speed_knots * dt_s * 1389, 50000)

\* intercept.py:204-205  speed x 0.514444 x dt_s, in units of 10 m
\* (0.05144 = 643 / 12500)
move_m(speed_knots, dt_s) == round_div(speed_knots * dt_s * 643, 12500)

\* intercept.py:178-192  the target's position projected forward by the time
\* to intercept at the closing speed max(speed - target speed / 2, 1); the
\* target's course is 90 (east)
aim_point(speed_knots, target, p) ==
    IF target.speed_knots > 0
    THEN LET closing2 == IF 2 * speed_knots - target.speed_knots > 2
                         THEN 2 * speed_knots - target.speed_knots ELSE 2
         IN  <<target.position[1]
                  + round_div(2 * target.speed_knots * dist_m(p, target.position), closing2),
               target.position[2]>>
    ELSE target.position

\* intercept.py:194, 212-218  a move of `move` along the bearing from p to aim
\* (bearing 0, north, when the two coincide)
advance(p, aim, move) ==
    LET len == dist_m(p, aim)
    IN  IF len = 0 THEN <<p[1], p[2] + move>>
        ELSE <<p[1] + round_div(move * (aim[1] - p[1]), len),
               p[2] + round_div(move * (aim[2] - p[2]), len)>>

\* intercept.py:207-209  don't overshoot the target
capped(move, dist) == IF move > dist THEN dist ELSE move

\* intercept.py:108-227  get_state for a non-fixed-wing pursuer whose entity
\* and whose target are both in the store
chase_get_state(m, objs, sim_time) ==
    LET p == objs[m.pursuer_id].position
        target == objs[m.target_id]
        dist == dist_m(p, target.position)
    IN  IF dist <= m.intercept_radius
        THEN [m |-> [m EXCEPT !.intercepted = TRUE, !.last_pos = p,
                              !.last_sim_time = sim_time],
              state |-> [pos |-> p, speed_knots |-> 0]]
        ELSE LET aim == aim_point(m.speed, target, p)
                 dt_s == dt_since(m.last_sim_time, sim_time)
                 new == IF dt_s > 0
                        THEN advance(p, aim, capped(move_m(m.speed, dt_s), dist))
                        ELSE p
             IN  [m |-> [m EXCEPT !.last_pos = new, !.last_sim_time = sim_time],
                  state |-> [pos |-> new, speed_knots |-> m.speed]]

\* test_intercept.py:57-58  target (5.5, 119) east at 10 kt, pursuer (5, 118)
ChaseEntities ==
    [P |-> [position |-> <<0, 0>>, speed_knots |-> 0, course_deg |-> 0],
     T |-> [position |-> <<11060, 5556>>, speed_knots |-> 10, course_deg |-> 90]]

\* test_intercept.py:62-68  InterceptMovement(25, "target", store,
\* pursuer_entity_id = "pursuer"), with the default radius of 500 m
ChaseMovement ==
    [speed |-> 25, target_id |-> "T", pursuer_id |-> "P", min_speed |-> 0,
     intercept_radius |-> 50, intercepted |-> FALSE, last_pos |-> <<>>,
     last_sim_time |-> NoTime]

\* the steps of one tick, by the order in which the store yields the entities
TickOrder ==
    [target_first |-> [top |-> "target", target |-> "pursuer", pursuer |-> "feed", feed |-> "top"],
     pursuer_first |-> [top |-> "pursuer", pursuer |-> "feed", feed |-> "target", target |-> "top"]]

chaseRest == <<clockVars, movements, engineVars, event_engine, loop, noise_cache,
               aviation, nav, listener, threads, outbound, ws, registry, run, store>>

\* run_simulator.py:57-62  the loop reads the clock for the next tick
ChaseTick ==
    /\ pursuit.pc = "top"
    /\ pursuit.sim_time + pursuit.period <= ChaseSeconds
    /\ pursuit' = [pursuit EXCEPT !.sim_time = @ + pursuit.period,
                                  !.pc = TickOrder[pursuit.order]["top"]]
    /\ UNCHANGED <<objects, chaseRest>>

\* run_simulator.py:66-103  the target's own strategy carries it east at its
\* speed, and the loop writes that to the store
ChaseTarget ==
    /\ pursuit.pc = "target"
    /\ objects' = [objects EXCEPT !["T"].position =
                      <<ChaseEntities["T"].position[1]
                           + move_m(objects["T"].speed_knots, pursuit.sim_time),
                        ChaseEntities["T"].position[2]>>]
    /\ pursuit' = [pursuit EXCEPT !.pc = TickOrder[pursuit.order]["target"]]
    /\ UNCHANGED chaseRest

\* run_simulator.py:66-70  movement.get_state(sim_time) on the pursuer
ChasePursuer ==
    /\ pursuit.pc = "pursuer"
    /\ \E r \in {chase_get_state(pursuit.m, objects, pursuit.sim_time)} :
          pursuit' = [pursuit EXCEPT
                         !.m = r.m, !.state = r.state,
                         !.pc = TickOrder[pursuit.order]["pursuer"],
                         !.caught_at = IF @ = NoTime /\ r.m.intercepted
                                       THEN pursuit.sim_time ELSE @,
                         !.nearest = IF dist_m(objects["P"].position, objects["T"].position) < @
                                     THEN dist_m(objects["P"].position, objects["T"].position)
                                     ELSE @]
    /\ UNCHANGED <<objects, chaseRest>>

\* run_simulator.py:90-103  the loop writes the returned state to the
\* pursuer's entity and upserts it
ChaseFeedBack ==
    /\ pursuit.pc = "feed"
    /\ objects' = [objects EXCEPT !["P"].position = pursuit.state.pos,
                                  !["P"].speed_knots = pursuit.state.speed_knots]
    /\ pursuit' = [pursuit EXCEPT !.pc = TickOrder[pursuit.order]["feed"]]
    /\ UNCHANGED chaseRest

InitChase ==
    /\ ClockAtRest
    /\ movements = LoadedMovements
    /\ EngineAtRest
    /\ event_engine = [run |-> 1, loop |-> 1]
    /\ loop = [pc |-> "top", sim_time |-> 0, pending |-> <<>>, tick_count |-> 0,
               max_ticks |-> MaxTicks]
    /\ noise_cache = [d \in {} |-> {}]
    /\ aviation = AviationSimulator
    /\ nav = NoNav
    /\ listener = NoCalls
    /\ threads = NoThreads
    /\ ws = [event_history |-> <<>>, trail_history |-> {}]
    /\ RegistryAtRest
    /\ RunAtRest
    /\ outbound = NoOutbound
    /\ objects = ChaseEntities
    /\ store = [id \in {"P", "T"} |-> id]
    /\ \E period \in TickPeriods, order \in DOMAIN TickOrder :
          pursuit = [m |-> ChaseMovement, period |-> period, order |-> order,
                     pc |-> TickOrder[order]["top"], sim_time |-> 0,
                     state |-> [pos |-> <<>>, speed_knots |-> 0],
                     caught_at |-> NoTime, nearest |-> 100000]

NextChase == ChaseTick \/ ChaseTarget \/ ChasePursuer \/ ChaseFeedBack

SpecChase == InitChase /\ [][NextChase]_vars

ThirtyMinutes == 30 * 60

\* C26: the pursuer is within the 500 m intercept radius of the target after
\* at most 30 minutes of sim time, and is_complete is then true.
C26_ConvergesWithinThirtyMinutes ==
    pursuit.sim_time > ThirtyMinutes
        => /\ pursuit.caught_at # NoTime
           /\ pursuit.caught_at <= ThirtyMinutes
           /\ pursuit.m.intercepted

ConvergeBy == 9 * ThirtyMinutes

\* C26 as the code has it: ticked every 60 s of sim time or less, the pursuer
\* is within the 500 m intercept radius of the target after at most four and a
\* half hours of sim time, never within the first 30 minutes, and is_complete
\* is true from then on.
C26_ConvergesWithinHours ==
    /\ pursuit.period <= 60 /\ pursuit.sim_time > ConvergeBy
           => /\ pursuit.caught_at # NoTime
              /\ pursuit.caught_at <= ConvergeBy
    /\ pursuit.caught_at # NoTime
           => /\ pursuit.caught_at > ThirtyMinutes
              /\ intercept_is_complete(pursuit.m)
    /\ intercept_is_complete(pursuit.m) => pursuit.caught_at # NoTime

\* the get_state call of this tick found the pursuer within the radius for
\* the first time and returned it stopped
C26_Witness ==
    /\ pursuit.pc = TickOrder[pursuit.order]["pursuer"]
    /\ pursuit.period <= 60
    /\ pursuit.caught_at = pursuit.sim_time
    /\ dist_m(objects["P"].position, objects["T"].position) <= pursuit.m.intercept_radius
    /\ pursuit.state = [pos |-> objects["P"].position, speed_knots |-> 0]
    /\ intercept_is_complete(pursuit.m)

\* ================================================== waypoint.py, on its own
\* Routes of up to MaxWaypoints waypoints in any order, equal offsets
\* included, queried at any sim_time.

RouteWaypoints == {Waypoint(pos, 0, speed, offset) :
                      pos \in {0, 4}, speed \in {50, 100}, offset \in 0..2}

RECURSIVE Routes(_)
Routes(n) ==
    IF n = 0 THEN {<<>>}
    ELSE Routes(n - 1) \cup {Append(r, w) : r \in Routes(n - 1) \ {<<>>}, w \in RouteWaypoints}
                       \cup {<<w>> : w \in RouteWaypoints}

RouteTimes == 0..4

routeRest == <<clockVars, objects, store, movements, engineVars, event_engine, loop,
               noise_cache, aviation, listener, threads, pursuit, outbound, ws, registry, run>>

\* movement.get_state(sim_time)
RouteGetState ==
    /\ \E sim_time \in RouteTimes :
          nav' = [nav EXCEPT !.op = "get_state", !.sim_time = sim_time,
                             !.state = waypoint_get_state(nav.m, sim_time)]
    /\ UNCHANGED routeRest

\* movement.is_complete(sim_time)
RouteIsComplete ==
    /\ \E sim_time \in RouteTimes :
          nav' = [nav EXCEPT !.op = "is_complete", !.sim_time = sim_time,
                             !.complete = waypoint_is_complete(nav.m, sim_time)]
    /\ UNCHANGED routeRest

InitRoute ==
    /\ ClockAtRest
    /\ WorldAtRest
    /\ EngineAtRest
    /\ event_engine = [run |-> 1, loop |-> 1]
    /\ loop = [pc |-> "top", sim_time |-> 0, pending |-> <<>>, tick_count |-> 0,
               max_ticks |-> MaxTicks]
    /\ noise_cache = [d \in {} |-> {}]
    /\ aviation = AviationSimulator
    /\ listener = NoCalls
    /\ threads = NoThreads
    /\ pursuit = NoPursuit
    /\ ws = [event_history |-> <<>>, trail_history |-> {}]
    /\ RegistryAtRest
    /\ RunAtRest
    /\ outbound = NoOutbound
    /\ \E route \in Routes(MaxWaypoints) \ {<<>>}, start_time \in {0, 1} :
          nav = [m |-> WaypointMovement(route, start_time), given |-> route,
                 op |-> NONE, sim_time |-> NoTime,
                 state |-> MovementState(NoPos, 0, 0), complete |-> FALSE]

NextRoute == RouteGetState \/ RouteIsComplete

SpecRoute == InitRoute /\ [][NextRoute]_vars

route_elapsed == nav.sim_time - nav.m.scenario_start

route_first == nav.m.waypoints[1]

route_last == nav.m.waypoints[Len(nav.m.waypoints)]

\* the strategy holds the given waypoints in time order
RouteSorted ==
    /\ Len(nav.m.waypoints) = Len(nav.given)
    /\ \A w \in RouteWaypoints :
          Cardinality({i \in DOMAIN nav.given : nav.given[i] = w})
             = Cardinality({i \in DOMAIN nav.m.waypoints : nav.m.waypoints[i] = w})
    /\ \A i, j \in DOMAIN nav.m.waypoints :
          i < j => nav.m.waypoints[i].time_offset <= nav.m.waypoints[j].time_offset

\* C28: for elapsed <= first.time_offset the state is the first waypoint's
\* position with speed 0; for elapsed >= last.time_offset it is the last
\* waypoint's position with speed 0; is_complete(sim_time) is true exactly
\* when elapsed >= last.time_offset.
C28_WaypointEnds ==
    /\ RouteSorted
    /\ nav.op = "get_state" /\ route_elapsed <= route_first.time_offset
          => nav.state = MovementState(route_first.pos, route_first.alt_m, 0)
    /\ nav.op = "get_state" /\ route_elapsed >= route_last.time_offset
          => nav.state = MovementState(route_last.pos, route_last.alt_m, 0)
    /\ nav.op = "is_complete"
          => (nav.complete <=> route_elapsed >= route_last.time_offset)

\* C28 as the code has it: for elapsed <= first.time_offset the state is the
\* first waypoint's position with speed 0 (also when elapsed equals the last
\* waypoint's offset, on a route whose offsets are all equal); for
\* elapsed >= last.time_offset and elapsed > first.time_offset it is the last
\* waypoint's position with speed 0; is_complete(sim_time) is true exactly
\* when elapsed >= last.time_offset.
C28_WaypointEndsFirstWins ==
    /\ RouteSorted
    /\ nav.op = "get_state" /\ route_elapsed <= route_first.time_offset
          => nav.state = MovementState(route_first.pos, route_first.alt_m, 0)
    /\ nav.op = "get_state" /\ route_elapsed >= route_last.time_offset
                            /\ route_elapsed > route_first.time_offset
          => nav.state = MovementState(route_last.pos, route_last.alt_m, 0)
    /\ nav.op = "is_complete"
          => (nav.complete <=> route_elapsed >= route_last.time_offset)

\* get_state at the common offset of two waypoints in different places
\* returned the first of them
C28_Witness ==
    /\ nav.op = "get_state"
    /\ Len(nav.m.waypoints) > 1
    /\ route_elapsed = route_first.time_offset
    /\ route_elapsed = route_last.time_offset
    /\ route_first.pos # route_last.pos
    /\ nav.state.pos = route_first.pos
    /\ nav.state.speed_knots = 0

\* ================================================== the loop with personnel
\* deploy / respond and intercept orders to the officer G (and one to the
\* patrol vessel P)
PersonnelCatalog(uid, t) ==
    { ScenarioEvent(uid, t, action, "G", <<>>, NONE, 5) : action \in {"deploy", "respond"} }
    \cup { ScenarioEvent(uid, t, "intercept", "G", <<>>, "T", NoDest),
           ScenarioEvent(uid, t, "deploy", "P", <<>>, NONE, 4) }

\* event u of a timeline is timed at offset u - 1 (or the largest offset)
PersonnelTimelines ==
    UNION { { tl \in [1..n -> UNION {PersonnelCatalog(u, IF u - 1 <= MaxOffset THEN u - 1
                                                         ELSE MaxOffset) : u \in 1..n}] :
                \A u \in 1..n : tl[u].uid = u } : n \in 1..MaxEvents }

InitPersonnel ==
    /\ clock = start(SimulationClock(1), 0)
    /\ monotonic = 0
    /\ WorldAtRest
    /\ \E tl \in PersonnelTimelines :
          engines = [r \in EngineRefs |-> EventEngine(tl)]
    /\ last_tick = NoTick
    /\ hist = NoHist
    /\ LoopAtRest
    /\ RegistryAtRest
    /\ RunAtRest
    /\ outbound = NoOutbound

NextPersonnel ==
    \/ LoopIteration
    \/ LoopPush
    \/ LoopWake
    \/ WallAdvance

SpecPersonnel == InitPersonnel /\ [][NextPersonnel]_vars

\* C29: at the end of every tick (in the store, whose entities are the
\* snapshot pushed to the transports) every PERSONNEL entity has a speed of
\* at most 4.3 kt, also in a tick in which a deploy / respond or intercept
\* event sets the entity's speed.
C29_PersonnelSpeedLimit ==
    last_tick.op = "tick"
        => \A id \in DOMAIN store :
              objects[store[id]].domain = "PERSONNEL"
                 => objects[store[id]].speed_knots <= PersonnelMaxSpeed

\* C30: in the tick loop every entity has its own noise instance: no noise
\* instance is ever applied to the states of two different entities.
C30_NoiseInstancePerEntity ==
    \A domain_key \in DOMAIN noise_cache : Cardinality(noise_cache[domain_key]) <= 1

\* ================================================== aviation.py, on its own
\* One aircraft in the store, its flight_phase metadata carried; between the
\* ticks of the AviationSimulator the movement phase writes its speed and the
\* event engine its status.

\* test_aviation.py:21-37  _make_aircraft; flight_phase NONE: not yet written
Aircraft(etype, status, speed, alt_m, on_ground) ==
    [entity_id |-> "A", entity_type |-> etype, domain |-> "AIR", status |-> status,
     position |-> 0, altitude_m |-> alt_m, speed_knots |-> speed, on_ground |-> on_ground,
     sidc |-> "SFAP------", flight_phase |-> NONE]

\* metadata["target_altitude_ft"] = ft
with_target_altitude(entity, ft) ==
    [k \in DOMAIN entity \cup {"target_altitude_ft"} |->
        IF k = "target_altitude_ft" THEN ft ELSE entity[k]]

aviationRest == <<clockVars, store, movements, engineVars, event_engine, loop, noise_cache,
                  unitVars, ws, registry, run>>

\* the status, on_ground flag and speed with which the aircraft entered the
\* latest tick, and the time delta of that tick
entered(entity, dt_s) ==
    [status |-> entity.status, on_ground |-> entity.on_ground,
     speed_knots |-> entity.speed_knots, dt_s |-> dt_s]

\* AviationSimulator.tick(sim_time), at the time of the tick before or later
AviationTick ==
    /\ aviation.ticks < MaxFlightTicks
    /\ \E sim_time \in {IF aviation.last_tick_time = NoTime THEN 0 ELSE aviation.last_tick_time,
                        IF aviation.last_tick_time = NoTime THEN 1
                        ELSE aviation.last_tick_time + 1} :
       \E r \in {aviation_tick(aviation, objects, store, sim_time)} :
          /\ objects' = r.objects
          /\ aviation' = [r.aviation EXCEPT
                            !.ticks = @ + 1,
                            !.entered = entered(objects["A"],
                                           IF aviation.last_tick_time = NoTime THEN 0
                                           ELSE sim_time - aviation.last_tick_time)]
    /\ UNCHANGED aviationRest

\* run_simulator.py:90-103  the movement phase writes the strategy's speed
AircraftMoves ==
    /\ \E speed \in {0, 30, 900} \ {objects["A"].speed_knots} :
          objects' = [objects EXCEPT !["A"].speed_knots = speed]
    /\ aviation' = [aviation EXCEPT !.entered = entered(objects["A"], 0)]
    /\ UNCHANGED aviationRest

\* event_engine.py:82-196  an order sets the status
AircraftOrdered ==
    /\ \E status \in EntityStatus \ {objects["A"].status} :
          objects' = [objects EXCEPT !["A"].status = status]
    /\ aviation' = [aviation EXCEPT !.entered = entered(objects["A"], 0)]
    /\ UNCHANGED aviationRest

InitAviation ==
    /\ ClockAtRest
    /\ movements = <<>>
    /\ EngineAtRest
    /\ event_engine = [run |-> 1, loop |-> 1]
    /\ loop = [pc |-> "top", sim_time |-> 0, pending |-> <<>>, tick_count |-> 0,
               max_ticks |-> MaxTicks]
    /\ noise_cache = [d \in {} |-> {}]
    /\ nav = NoNav
    /\ listener = NoCalls
    /\ threads = NoThreads
    /\ pursuit = NoPursuit
    /\ ws = [event_history |-> <<>>, trail_history |-> {}]
    /\ RegistryAtRest
    /\ RunAtRest
    /\ outbound = NoOutbound
    /\ store = [id \in {"A"} |-> id]
    /\ \E etype \in {"CIVILIAN_LIGHT", "RMAF_HELICOPTER"}, status \in {"IDLE", "ACTIVE"},
          speed \in {0, 900}, alt_m \in {0, 1} :
       \E a \in {Aircraft(etype, status, speed, alt_m, TRUE)} :
       \E entity \in {a, with_target_altitude(a, 0)} :
          objects = [id \in {"A"} |-> entity]
    /\ aviation = [AviationSimulator EXCEPT !.last_tick_time = NoTime] @@
                  [ticks |-> 0, entered |-> entered(Aircraft("CIVILIAN_LIGHT", "IDLE", 0, 0, TRUE), 0)]

NextAviation == AviationTick \/ AircraftMoves \/ AircraftOrdered

SpecAviation == InitAviation /\ [][NextAviation]_vars

\* the latest step was a tick with a positive time delta that the aircraft
\* entered on the ground, moving, with one of the three active statuses
EnteredTakingOff ==
    /\ aviation.entered.dt_s > 0
    /\ aviation.entered.status \in {"ACTIVE", "RESPONDING", "INTERCEPTING"}
    /\ aviation.entered.on_ground
    /\ aviation.entered.speed_knots > 0

\* C31: in AviationSimulator.tick with a positive time delta, an aircraft with
\* status ACTIVE, RESPONDING or INTERCEPTING that is on the ground with
\* speed > 0 ends the tick with on_ground = false and flight_phase = takeoff.
C31_TakeoffTransition ==
    EnteredTakingOff
        => /\ objects["A"].on_ground = FALSE
           /\ objects["A"].flight_phase = "takeoff"

\* ================================================== websocket_adapter.py
\* The tasks of the event loop that touch WebSocketAdapter._clients: one
\* _handle_client per connection, the clock task (_broadcast_clock) and the
\* tick loop's pushes.  A step runs a task from one await to the next; every
\* "await client.send" may suspend.  websocket.send puts the message on the
\* connection before it first suspends, so a connection carries messages in
\* the order of the send calls.

\* the connections accepted in one behaviour
Clients == {1, 2}

BroadcastTasks == {"clock", "loop"}

NoBroadcast == [message |-> NONE, members |-> {}, size |-> 0, visited |-> {}, disconnected |-> {}]

\* a message as the client sees it: its type, and the entity ids it carries
message(type, entities) == [type |-> type, entities |-> entities]

\* await websocket.send(msg) on an open connection
send(wire, c, msg) == [wire EXCEPT ![c] = Append(@, msg)]

on_connect_unsent(w, c, st) ==
    [w EXCEPT !.clients = @ \cup {c}, !.open = @ \cup {c}, !.handler[c] = "sending"]

\* websocket_adapter.py:218-235  _handle_client up to its first await: the
\* client joins _clients and the snapshot of the store is sent
on_connect(w, c, st) ==
    [w EXCEPT !.clients = @ \cup {c}, !.open = @ \cup {c}, !.handler[c] = "sending",
              !.wire = send(@, c, message("snapshot", DOMAIN st))]

\* websocket_adapter.py:303-308  "for client in self._clients" begins
begin_broadcast(w, k, msg) ==
    IF w.clients = {}
    THEN [w EXCEPT !.sent[k] = @ + 1]
    ELSE [w EXCEPT !.task[k] = "iter", !.sent[k] = @ + 1,
                   !.bcast[k] = [message |-> msg, members |-> w.clients,
                                 size |-> Cardinality(w.clients),
                                 visited |-> {}, disconnected |-> {}]]

\* the set iterator finds _clients with another size than it started with
set_changed_size(w, k) == Cardinality(w.clients) # w.bcast[k].size

\* websocket_adapter.py:309-312  one pass of the loop body on client c
broadcast_to(w, k, c) ==
    IF c \in w.open
    THEN [w EXCEPT !.wire = send(@, c, w.bcast[k].message),
                   !.bcast[k].visited = @ \cup {c}]
    ELSE [w EXCEPT !.bcast[k].visited = @ \cup {c},
                   !.bcast[k].disconnected = @ \cup {c}]

\* websocket_adapter.py:313  self._clients -= disconnected
end_broadcast(w, k) ==
    [w EXCEPT !.clients = @ \ w.bcast[k].disconnected,
              !.bcast[k] = NoBroadcast, !.task[k] = "ready"]

\* the exception leaves _broadcast.  In _broadcast_clock only CancelledError
\* is caught (websocket_adapter.py:317-334): the task ends.  The tick loop
\* catches Exception around each push (run_simulator.py:114-128).
broadcast_raises(w, k) ==
    [w EXCEPT !.bcast[k] = NoBroadcast,
              !.task[k] = IF k = "clock" THEN "dead" ELSE "ready"]

socketRest == <<clockVars, objects, movements, engineVars, event_engine, loop, noise_cache,
                aviation, unitVars, registry, run>>

\* a connection is accepted: _handle_client(websocket) starts (the
\* connections are numbered in the order they are accepted)
ClientConnects(c) ==
    /\ ws.handler[c] = "idle"
    /\ \A b \in Clients : b < c => ws.handler[b] # "idle"
    /\ \E token_valid \in BOOLEAN :
          ws' = IF token_valid THEN on_connect(ws, c, store)
                ELSE [ws EXCEPT !.handler[c] = "rejected"]
    /\ UNCHANGED <<store, socketRest>>

\* websocket_adapter.py:237-257  trail history and event history follow the
\* snapshot; then the handler listens for commands
HandlerSendsHistory(c) ==
    /\ ws.handler[c] = "sending"
    /\ c \in ws.open
    /\ ws' = [ws EXCEPT
                !.handler[c] = "listening",
                !.wire[c] = @ \o (IF ws.trail_history # {}
                                  THEN <<message("trail_history", ws.trail_history)>>
                                  ELSE <<>>)
                             \o [i \in 1..Len(ws.event_history) |-> message("event", {})]]
    /\ UNCHANGED <<store, socketRest>>

\* the peer closes the connection
ClientCloses(c) ==
    /\ c \in ws.open
    /\ ws' = [ws EXCEPT !.open = @ \ {c}]
    /\ UNCHANGED <<store, socketRest>>

\* websocket_adapter.py:256-263  ConnectionClosed or the end of the message
\* stream: finally self._clients.discard(websocket)
HandlerExits(c) ==
    /\ ws.handler[c] \in {"sending", "listening"}
    /\ c \notin ws.open
    /\ ws' = [ws EXCEPT !.handler[c] = "gone", !.clients = @ \ {c}]
    /\ UNCHANGED <<store, socketRest>>

\* websocket_adapter.py:317-332  the clock task, back from asyncio.sleep(1.0)
\* or just started, builds its message and enters _broadcast
ClockBroadcasts ==
    /\ ws.task["clock"] = "ready"
    /\ ws.sent["clock"] + ws.sent["loop"] < MaxBroadcasts
    /\ ws' = begin_broadcast(ws, "clock", message("clock", {}))
    /\ UNCHANGED <<store, socketRest>>

\* run_simulator.py:114-128  the tick loop awaits push_event or
\* push_bulk_update on the adapter
LoopBroadcasts ==
    /\ ws.task["loop"] = "ready"
    /\ ws.sent["clock"] + ws.sent["loop"] < MaxBroadcasts
    /\ \E kind \in {"event", "bulk"} :
       \E w \in {ws_push(ws, [adapter |-> "websocket", kind |-> kind, uid |-> 1])} :
          ws' = begin_broadcast(w, "loop",
                                IF kind = "event" THEN message("event", {})
                                ELSE message("entity_batch", DOMAIN store))
    /\ UNCHANGED <<store, socketRest>>

\* the set iterator's next(): RuntimeError when the set changed size, else
\* some client not yet visited; the iteration may end once every client it
\* started with has been visited or has left
BroadcastNext(k) ==
    /\ ws.task[k] = "iter"
    /\ IF set_changed_size(ws, k)
       THEN ws' = broadcast_raises(ws, k)
       ELSE \/ \E c \in ws.clients \ ws.bcast[k].visited : ws' = broadcast_to(ws, k, c)
            \/ /\ (ws.clients \cap ws.bcast[k].members) \subseteq ws.bcast[k].visited
               /\ ws' = end_broadcast(ws, k)
    /\ UNCHANGED <<store, socketRest>>

\* WebSocketAdapter.disconnect (websocket_adapter.py:150-156): the clock task
\* is cancelled at the await it is suspended in
AdapterDisconnect ==
    /\ ws.task["clock"] \in {"ready", "iter"}
    /\ ws.task["loop"] # "iter"
    /\ ws' = [ws EXCEPT !.task["clock"] = "cancelled", !.bcast["clock"] = NoBroadcast]
    /\ UNCHANGED <<store, socketRest>>

InitSocket ==
    /\ ClockAtRest
    /\ WorldAtRest
    /\ EngineAtRest
    /\ event_engine = [run |-> 1, loop |-> 1]
    /\ loop = [pc |-> "top", sim_time |-> 0, pending |-> <<>>, tick_count |-> 0,
               max_ticks |-> MaxTicks]
    /\ noise_cache = [d \in {} |-> {}]
    /\ aviation = AviationSimulator
    /\ nav = NoNav
    /\ listener = NoCalls
    /\ threads = NoThreads
    /\ pursuit = NoPursuit
    /\ RegistryAtRest
    /\ RunAtRest
    /\ outbound = NoOutbound
    /\ ws = [event_history |-> <<>>, trail_history |-> {},
             clients |-> {}, open |-> {},
             wire |-> [c \in Clients |-> <<>>],
             handler |-> [c \in Clients |-> "idle"],
             task |-> [k \in BroadcastTasks |-> "ready"],
             bcast |-> [k \in BroadcastTasks |-> NoBroadcast],
             sent |-> [k \in BroadcastTasks |-> 0]]

NextSocket ==
    \/ \E c \in Clients :
          \/ ClientConnects(c)
          \/ HandlerSendsHistory(c)
          \/ ClientCloses(c)
          \/ HandlerExits(c)
    \/ ClockBroadcasts
    \/ LoopBroadcasts
    \/ \E k \in BroadcastTasks : BroadcastNext(k)
    \/ AdapterDisconnect

SpecSocket == InitSocket /\ [][NextSocket]_vars

\* C32: for every WebSocket client that connects and passes auth, the first
\* message it receives is a snapshot of all current store entities: no
\* entity_batch, event or clock message broadcast concurrently by the tick
\* loop or the clock task is delivered to that client before its snapshot.
C32_SnapshotFirst ==
    /\ \A c \in Clients :
          /\ c \in ws.clients => ws.wire[c] # <<>>
          /\ ws.wire[c] # <<>> => Head(ws.wire[c]).type = "snapshot"
    /\ [][\A c \in Clients :
             ws.handler[c] = "idle" /\ ws'.handler[c] = "sending"
                => ws'.wire[c] = <<message("snapshot", DOMAIN store)>>]_vars

\* a client that connected while a broadcast was in progress has its
\* snapshot, and after it a broadcast message
C32_Witness ==
    \E c \in Clients :
        /\ Len(ws.wire[c]) >= 2
        /\ ws.wire[c][1].type = "snapshot"
        /\ ws.wire[c][2].type \in {"clock", "entity_batch", "event"}
        /\ \E k \in BroadcastTasks : ws.task[k] = "iter" /\ c \notin ws.bcast[k].members
                                      /\ c \in ws.bcast[k].visited

\* C33: while the WebSocket adapter is connected its clock task keeps
\* broadcasting: clients connecting or disconnecting concurrently with a
\* broadcast never stop the task; only disconnect() stops it.
C33_ClockTaskKeepsRunning ==
    ws.task["clock"] # "dead"

\* ================================================================ startup and shutdown over the adapter list

\* C34: connect and disconnect are attempted on every adapter even when an
\* earlier adapter raises: when run() has ended its shutdown, whether or
\* not a disconnect() raised, the disconnect of every adapter of its list
\* was attempted (the last attempt is the one at position run.i).
C34_EveryAdapterAttempted ==
    (loop.pc = "done" /\ run.pc \in {"stopped", "raised"}) =>
        \/ run.pc = "stopped" /\ Len(run.disconnected) = Len(Adapters)
        \/ run.pc = "raised" /\ run.i = Len(Adapters)

\* ================================================================ the movement phase and strategy swaps

\* a step of the loop that runs the synchronous part of one tick
\* (run_simulator.py:63-113)
TickStep == loop.pc = "top" /\ loop'.pc \in {"push", "crashed"}

\* the calls of the tick just run that concern entity id
queries_of(id) == {i \in 1..Len(last_tick'.queried) : last_tick'.queried[i].id = id}

writes_of(id) == {i \in 1..Len(last_tick'.written) : last_tick'.written[i] = id}

\* C35: a tick queries, exactly once each, the strategies bound in the
\* movements map when the tick starts, and writes the store entry of each
\* of those entities exactly once; the map changes only inside a tick (by
\* its events), so a binding an event installs or deletes in one tick is
\* first used, or first absent, in the next tick, and no entity is moved
\* twice or skipped.
C35_SnapshotMovedOnce ==
    /\ [][TickStep =>
            /\ \A k \in 1..Len(movements) :
                  /\ Cardinality(queries_of(movements[k].id)) = 1
                  /\ \A i \in queries_of(movements[k].id) :
                        last_tick'.queried[i].m = movements[k].m
                  /\ Cardinality(writes_of(movements[k].id)) = 1
            /\ \A id \in EntityIds :
                  ~mov_has(movements, id) => queries_of(id) = {} /\ writes_of(id) = {}]_vars
    /\ [][~TickStep => movements' = movements]_vars

\* an event of an earlier tick replaced a binding, and the tick just run
\* queried the strategy the event installed, once
C35_Witness ==
    /\ last_tick.op = "tick"
    /\ loop.tick_count >= 1
    /\ Len(last_tick.written) = Len(LoadedMovements)
    /\ \E i \in 1..Len(last_tick.queried) : last_tick.queried[i].m.kind # "waypoint"

\* ================================================================ the order of the phases of a tick

\* the steps of the tick just run, in the order they were taken
Phases == last_tick.phases

\* the positions of the steps of one kind
phase_at(phase) == {i \in 1..Len(Phases) : Phases[i].phase = phase}

\* C36: within a tick each entity goes through strategy query, noise,
\* terrain correction (where its domain is checked) and store write, in
\* that order and without another entity's step in between; the domain
\* post-processors run after all entities, the event engine after them,
\* and the pushes last, fired events before the bulk snapshot; the next
\* tick starts only when every push of this one has returned.
C36_PhaseOrder ==
    /\ [](last_tick.op = "tick" =>
            /\ \A i \in phase_at("strategy") :
                  \E j \in {i + 2, i + 3} :
                      /\ j <= Len(Phases)
                      /\ Phases[i + 1] = [phase |-> "noise", of |-> Phases[i].of]
                      /\ Phases[j] = [phase |-> "store", of |-> Phases[i].of]
                      /\ j = i + 3 => Phases[i + 2] = [phase |-> "terrain", of |-> Phases[i].of]
            /\ \A i \in 1..Len(Phases) :
                  Phases[i].phase \in {"noise", "terrain", "store"} =>
                      \E k \in phase_at("strategy") :
                          k < i /\ i <= k + 3 /\ Phases[k].of = Phases[i].of
            /\ Cardinality(phase_at("store")) = Len(last_tick.written)
            /\ \A i \in phase_at("domain") :
                  /\ \A e \in phase_at("store") : e < i
                  /\ \A e \in phase_at("event_engine") : i < e
            /\ Cardinality(phase_at("domain")) = Len(DomainSimulators)
            /\ phase_at("event_engine") = {Len(Phases)})
    /\ [](\A i, j \in 1..Len(loop.pending) :
            (loop.pending[i].kind = "event" /\ loop.pending[j].kind = "bulk") => i < j)
    /\ [][loop'.pending # <<>> /\ loop.pending = <<>> => TickStep]_vars
    /\ [][TickStep => loop.pending = <<>> /\ loop.pc # "push"]_vars
    /\ [][ws'.event_history # ws.event_history /\ Len(ws'.event_history) > 0 => loop.pc = "push"]_vars

\* a tick has moved two entities, three post-processors and the event
\* engine have run, and pushes of fired events and of the bulk snapshot
\* are awaited
C36_Witness ==
    /\ last_tick.op = "tick"
    /\ Cardinality(phase_at("terrain")) >= 2
    /\ loop.pc = "push"
    /\ \E i \in 1..Len(loop.pending) : loop.pending[i].kind = "event"
    /\ \E i \in 1..Len(loop.pending) : loop.pending[i].kind = "bulk"

\* ================================================================ the end of the scenario

\* scenarios whose routes end inside the run: the patrol vessel on a route
\* one time unit long, and the other vessel either on such a route or on a
\* random patrol of two cells (loader.py:359, 368)
CompletionMovements ==
    { << [id |-> "P", m |-> WaypointMovement(<<Waypoint(0, 0, 100, 0), Waypoint(1, 0, 100, 1)>>, 0)],
         [id |-> "T", m |-> other] >> :
        other \in {WaypointMovement(<<Waypoint(5, 0, 50, 0), Waypoint(6, 0, 50, 1)>>, 0),
                   PatrolMovement(<<5, 6>>, 50, 0)} }

\* timelines of at most one event, due one time unit into the scenario
CompletionTimelines == {<<>>} \cup {<<event>> : event \in Catalog(1, 1)}

InitComplete ==
    /\ clock = start(SimulationClock(1), 0)
    /\ monotonic = 0
    /\ objects = LoadedEntities
    /\ store = [id \in EntityIds |-> id]
    /\ movements \in CompletionMovements
    /\ \E tl \in CompletionTimelines :
          engines = [r \in EngineRefs |-> EventEngine(tl)]
    /\ last_tick = NoTick
    /\ hist = NoHist
    /\ event_engine = [run |-> 1, loop |-> 1]
    /\ loop = [pc |-> "top", sim_time |-> 0, pending |-> <<>>, tick_count |-> 0,
               max_ticks |-> CompletionTicks + MaxTicks]
    /\ noise_cache = [d \in {} |-> {}]
    /\ aviation = AviationSimulator
    /\ nav = NoNav
    /\ listener = NoCalls
    /\ threads = NoThreads
    /\ pursuit = NoPursuit
    /\ ws = [event_history |-> <<>>, trail_history |-> {}]
    /\ RegistryAtRest
    /\ RunAtRest
    /\ outbound = NoOutbound

NextComplete ==
    \/ LoopIteration
    \/ LoopPush
    \/ LoopWake
    \/ WallAdvance

SpecComplete == InitComplete /\ [][NextComplete]_vars

\* the bindings the completion check is meant to wait for: every strategy
\* but the ones that never complete by design
WaypointLike(m) == m.kind # "patrol"

\* C37: a tick at whose end all events have fired, more than ten ticks have
\* run and every waypoint-like movement is complete is the loop's last: the
\* loop does not go to its inter-tick sleep.
C37_ExitsWhenComplete ==
    (/\ loop.pc = "sleep"
     /\ loop.tick_count > CompletionTicks
     /\ is_complete(engines[event_engine.loop]))
        => \E k \in 1..Len(movements) :
              /\ WaypointLike(movements[k].m)
              /\ ~movement_is_complete(movements[k].m, loop.sim_time)

\* ================================================================ an aircraft ordered to intercept

\* the types of the aircraft standing by: a fighter (minimum speed 200 kt)
\* and a helicopter (minimum speed 0)
ScrambleTypes == {"RMAF_FIGHTER", "RMAF_HELICOPTER"}

\* loader.py:332-342  the aircraft P parked at cell 0, of the given type
Scrambled(entity_type) ==
    [LoadedEntities EXCEPT !.P = [@ EXCEPT !.entity_type = entity_type,
                                           !.domain = ENTITY_TYPES[entity_type].domain,
                                           !.sidc = ENTITY_TYPES[entity_type].sidc,
                                           !.status = "IDLE",
                                           !.speed_knots = 0]]

\* the aircraft has no route of its own; the suspect vessel is on its route
InitScramble ==
    /\ clock = start(SimulationClock(1), 0)
    /\ monotonic = 0
    /\ \E entity_type \in ScrambleTypes : objects = Scrambled(entity_type)
    /\ store = [id \in EntityIds |-> id]
    /\ movements = <<LoadedMovements[2]>>
    /\ \E t \in 0..MaxOffset :
          engines = [r \in EngineRefs |->
                        EventEngine(<<ScenarioEvent(1, t, "intercept", "P", <<>>, "T", NoDest)>>)]
    /\ last_tick = NoTick
    /\ hist = NoHist
    /\ event_engine = [run |-> 1, loop |-> 1]
    /\ loop = [pc |-> "top", sim_time |-> 0, pending |-> <<>>, tick_count |-> 0,
               max_ticks |-> MaxTicks + MaxWall]
    /\ noise_cache = [d \in {} |-> {}]
    /\ aviation = AviationSimulator
    /\ nav = NoNav
    /\ listener = NoCalls
    /\ threads = NoThreads
    /\ pursuit = NoPursuit
    /\ ws = [event_history |-> <<>>, trail_history |-> {}]
    /\ RegistryAtRest
    /\ RunAtRest
    /\ outbound = NoOutbound

NextScramble ==
    \/ LoopIteration
    \/ LoopPush
    \/ LoopWake
    \/ WallAdvance

SpecScramble == InitScramble /\ [][NextScramble]_vars

\* the minimum speed of the aircraft's type (loader.py:68-83)
min_speed_of(entity) == speed_range(entity.entity_type)[1]

\* C38: once the Intercept strategy the event engine installed for a
\* fixed-wing aircraft (minimum speed of its type above 0) has come within
\* the intercept radius, the aircraft flies on at its type's minimum speed
\* and the strategy does not report completion.
C38_FixedWingOrbits ==
    \A k \in 1..Len(movements) :
        (/\ movements[k].m.kind = "intercept"
         /\ movements[k].m.intercepted
         /\ min_speed_of(objects[store[movements[k].id]]) > 0)
            => /\ objects[store[movements[k].id]].speed_knots
                    = min_speed_of(objects[store[movements[k].id]])
               /\ ~movement_is_complete(movements[k].m, loop.sim_time)

\* ================================================================ cot_adapter.py

\* CoTAdapter.__init__ (cot_adapter.py:64-77).  writer is 0 for None, else
\* the number of the connection it belongs to; the ghost fields count the
\* open_connection calls, keep what was written to the socket, and log what
\* each _send of the latest call did.
CoTAdapter(enabled) ==
    [name |-> "cot", enabled |-> enabled, connected |-> FALSE, writer |-> 0,
     pc |-> "new", attempts |-> 0, opened |-> 0, pushes |-> 0, sent |-> <<>>,
     raised |-> FALSE, op |-> "init", log |-> <<>>]

\* asyncio.open_connection(host, port) inside try/except Exception, as in
\* connect (cot_adapter.py:88-96) and _reconnect (cot_adapter.py:277-285)
cot_open(a, ok) ==
    IF ok
    THEN [a EXCEPT !.attempts = @ + 1, !.opened = @ + 1, !.writer = a.opened + 1,
                   !.connected = TRUE]
    ELSE [a EXCEPT !.attempts = @ + 1, !.connected = FALSE]

\* CoTAdapter.connect (cot_adapter.py:83-96)
cot_connect(a, ok) ==
    LET b == [a EXCEPT !.pc = "up", !.op = "connect", !.log = <<>>]
    IN  IF ~a.enabled THEN b ELSE cot_open(b, ok)

\* CoTAdapter.disconnect (cot_adapter.py:98-107); an error of close() or
\* wait_closed() is swallowed
cot_disconnect(a) ==
    [a EXCEPT !.connected = FALSE, !.pc = "down", !.op = "disconnect", !.log = <<>>]

\* what one _send did: whether the adapter was connected when it was
\* called, the outcome of the reconnect before the write and of the one
\* after a failed write ("none" when not attempted), and whether the write
\* was attempted and went through
SendRecord(was_connected, reconnect, wrote, write_ok, recover, connected_after) ==
    [was_connected |-> was_connected, reconnect |-> reconnect, wrote |-> wrote,
     write_ok |-> write_ok, recover |-> recover, connected_after |-> connected_after]

outcome_of(ok) == IF ok THEN "ok" ELSE "failed"

\* mutant: a failed write only marks the adapter disconnected
cot_send_lazy(a, xml_str, reconnect_ok, write_ok, recover_ok) ==
    LET was_connected == a.connected /\ a.writer # 0
        b == IF was_connected THEN a ELSE cot_open(a, reconnect_ok)
        reconnect == IF was_connected THEN "none" ELSE outcome_of(reconnect_ok)
    IN  IF ~b.connected
        THEN [b EXCEPT !.log = Append(@, SendRecord(was_connected, reconnect, FALSE, FALSE,
                                                    "none", FALSE))]
        ELSE IF write_ok
        THEN [b EXCEPT !.sent = Append(@, [xml |-> xml_str, writer |-> b.writer]),
                       !.log = Append(@, SendRecord(was_connected, reconnect, TRUE, TRUE,
                                                    "none", TRUE))]
        ELSE [b EXCEPT !.connected = FALSE,
                       !.log = Append(@, SendRecord(was_connected, reconnect, TRUE, FALSE,
                                                    "none", FALSE))]

\* CoTAdapter._send (cot_adapter.py:260-273).  reconnect_ok, write_ok and
\* recover_ok are what the network does to the reconnect before the write,
\* to write()/drain(), and to the reconnect after a failed write.
cot_send(a, xml_str, reconnect_ok, write_ok, recover_ok) ==
    LET was_connected == a.connected /\ a.writer # 0
        b == IF was_connected THEN a ELSE cot_open(a, reconnect_ok)
        reconnect == IF was_connected THEN "none" ELSE outcome_of(reconnect_ok)
    IN  IF ~b.connected
        THEN [b EXCEPT !.log = Append(@, SendRecord(was_connected, reconnect, FALSE, FALSE,
                                                    "none", FALSE))]
        ELSE IF write_ok
        THEN [b EXCEPT !.sent = Append(@, [xml |-> xml_str, writer |-> b.writer]),
                       !.log = Append(@, SendRecord(was_connected, reconnect, TRUE, TRUE,
                                                    "none", TRUE))]
        ELSE LET c == cot_open([b EXCEPT !.connected = FALSE], recover_ok)
             IN  [c EXCEPT !.log = Append(@, SendRecord(was_connected, reconnect, TRUE, FALSE,
                                                        outcome_of(recover_ok), c.connected))]

\* the network's part in one _send
SendOutcomes == [reconnect_ok : BOOLEAN, write_ok : BOOLEAN, recover_ok : BOOLEAN]

\* CoTAdapter.push_entity_update / push_event (cot_adapter.py:109-121)
cot_push(a, xml_str, o) ==
    IF ~a.enabled THEN a
    ELSE cot_send(a, xml_str, o.reconnect_ok, o.write_ok, o.recover_ok)

\* CoTAdapter.push_bulk_update (cot_adapter.py:123-128): one
\* push_entity_update per entity, in list order
RECURSIVE cot_push_bulk(_, _, _, _)
cot_push_bulk(a, entities, os, k) ==
    IF ~a.enabled \/ k > Len(entities) THEN a
    ELSE cot_push_bulk(cot_push(a, <<a.pushes, entities[k]>>, os[k]), entities, os, k + 1)

\* ---- the adapter driven by its caller, with a network that may fail any call

cotRest == <<clockVars, worldVars, engineVars, event_engine, loop, noise_cache, aviation,
             nav, listener, threads, pursuit, ws, registry, run>>

\* the simulator connects its adapters once, before the first push
CotConnect ==
    /\ outbound.pc = "new"
    /\ \E ok \in BOOLEAN : outbound' = cot_connect(outbound, ok)
    /\ UNCHANGED cotRest

\* push_event(event) for the next fired event
CotPushEvent ==
    /\ outbound.pc = "up"
    /\ outbound.pushes < MaxPushes
    /\ \E o \in SendOutcomes :
          outbound' = cot_push([outbound EXCEPT !.pushes = @ + 1, !.op = "push_event",
                                                !.log = <<>>],
                               <<outbound.pushes + 1, "event">>, o)
    /\ UNCHANGED cotRest

\* push_bulk_update(entities) with the two moving entities of the scenario
CotPushBulk ==
    /\ outbound.pc = "up"
    /\ outbound.pushes < MaxPushes
    /\ \E os \in [1..2 -> SendOutcomes] :
          outbound' = cot_push_bulk([outbound EXCEPT !.pushes = @ + 1,
                                                     !.op = "push_bulk_update", !.log = <<>>],
                                    <<"P", "T">>, os, 1)
    /\ UNCHANGED cotRest

CotDisconnect ==
    /\ outbound.pc = "up"
    /\ outbound' = cot_disconnect(outbound)
    /\ UNCHANGED cotRest

InitCot ==
    /\ ClockAtRest
    /\ WorldAtRest
    /\ EngineAtRest
    /\ event_engine = [run |-> 1, loop |-> 1]
    /\ loop = [pc |-> "top", sim_time |-> 0, pending |-> <<>>, tick_count |-> 0,
               max_ticks |-> MaxTicks]
    /\ noise_cache = [d \in {} |-> {}]
    /\ aviation = AviationSimulator
    /\ nav = NoNav
    /\ listener = NoCalls
    /\ threads = NoThreads
    /\ pursuit = NoPursuit
    /\ ws = [event_history |-> <<>>, trail_history |-> {}]
    /\ RegistryAtRest
    /\ run = [stop |-> FALSE, pc |-> "loop", i |-> 1, disconnected |-> <<>>]
    /\ \E enabled \in BOOLEAN : outbound = CoTAdapter(enabled)

NextCot ==
    \/ CotConnect
    \/ CotPushEvent
    \/ CotPushBulk
    \/ CotDisconnect

SpecCot == InitCot /\ [][NextCot]_vars

\* what the adapter does around a failure, but for the state a failed write
\* leaves: nothing raises; a failed connect leaves the adapter marked
\* disconnected; a _send that finds the adapter disconnected first tries to
\* reconnect, writes if that succeeded and drops the message otherwise; a
\* disabled adapter opens no connection and writes nothing
CotFailuresContained ==
    /\ ~outbound.raised
    /\ (outbound.op = "connect" /\ outbound.enabled /\ outbound.opened = 0)
          => ~outbound.connected
    /\ \A i \in 1..Len(outbound.log) :
          LET r == outbound.log[i]
          IN  /\ r.was_connected <=> r.reconnect = "none"
              /\ r.reconnect = "ok" => r.wrote
              /\ r.reconnect = "failed" => ~r.wrote /\ ~r.connected_after
              /\ r.wrote /\ r.write_ok => r.connected_after
    /\ ~outbound.enabled =>
          outbound.attempts = 0 /\ outbound.sent = <<>> /\ outbound.log = <<>>

\* C39: a failed connect or a failed send leaves the adapter marked
\* disconnected, without raising; a later push first attempts to reconnect,
\* sends if the reconnect succeeds and drops the message otherwise; a
\* disabled adapter never opens a connection and never sends.
C39_DisconnectedUntilNextPush ==
    /\ CotFailuresContained
    /\ \A i \in 1..Len(outbound.log) :
          (outbound.log[i].wrote /\ ~outbound.log[i].write_ok)
              => /\ ~outbound.log[i].connected_after
                 /\ outbound.log[i].recover = "none"

\* C39 (as the code has it): as above, except that a failed send is
\* followed at once by one reconnect attempt inside the same push: the
\* adapter is left disconnected only if that attempt fails too, and the
\* message of the failed send is dropped either way.
C39_ReconnectsAfterFailedSend ==
    /\ CotFailuresContained
    /\ \A i \in 1..Len(outbound.log) :
          (outbound.log[i].wrote /\ ~outbound.log[i].write_ok)
              => /\ outbound.log[i].recover # "none"
                 /\ outbound.log[i].connected_after <=> outbound.log[i].recover = "ok"
    /\ \A k \in 1..Len(outbound.sent) : outbound.sent[k].writer <= outbound.opened
    /\ outbound.op \in {"push_event", "push_bulk_update"} =>
          Cardinality({k \in 1..Len(outbound.sent) : outbound.sent[k].xml[1] = outbound.pushes})
              = Cardinality({i \in 1..Len(outbound.log) : outbound.log[i].write_ok})

\* a send failed and the reconnect that followed it succeeded, and before
\* that a push had found the adapter disconnected and reconnected it
C39_Witness ==
    /\ outbound.enabled
    /\ outbound.op = "push_bulk_update"
    /\ Len(outbound.log) = 2
    /\ outbound.log[1].reconnect = "ok" /\ outbound.log[1].wrote /\ ~outbound.log[1].write_ok
    /\ outbound.log[1].recover = "failed"
    /\ outbound.log[2].reconnect = "ok" /\ outbound.log[2].write_ok
    /\ outbound.connected

\* ================================================================ rest_adapter.py

\* rest_adapter.py:418  the statuses that are retried
RetryableStatuses == {429, 500, 502, 503, 504}

\* what the server and the network can do to one request: the request (or
\* the reading of the response) raises, or a response arrives with a
\* status, whose body can then be read or not
Responses ==
    {[kind |-> "exception", status |-> 0, body_ok |-> FALSE]}
        \cup {[kind |-> "response", status |-> status, body_ok |-> body_ok] :
                status \in {200, 399, 400, 404} \cup RetryableStatuses, body_ok \in BOOLEAN}

\* RESTAdapter.__init__ (rest_adapter.py:82-111), connected; the ghost
\* fields keep the responses and the sleeps of the _send call in progress
RESTAdapter(dry_run, max_retries) ==
    [name |-> "rest", dry_run |-> dry_run, max_retries |-> max_retries,
     dry_run_log |-> 0, pc |-> "idle", attempt |-> 0, result |-> FALSE,
     calls |-> 0, responses |-> <<>>, waits |-> <<>>]

\* mutant: the wait grows linearly
backoff_linear(attempt) == 2 * attempt

\* rest_adapter.py:419, 431  wait = (2 ** attempt)
backoff(attempt) == 2 ^ attempt

\* "for attempt in range(self._max_retries)" moves on (rest_adapter.py:414,
\* 436-437): the next request, or False when the range is used up
rest_next_attempt(a, attempt) ==
    IF attempt < a.max_retries
    THEN [a EXCEPT !.pc = "request", !.attempt = attempt]
    ELSE [a EXCEPT !.pc = "returned", !.result = FALSE]

\* RESTAdapter._send (rest_adapter.py:397-410) up to its first request
rest_send(a) ==
    LET b == [a EXCEPT !.calls = @ + 1, !.responses = <<>>, !.waits = <<>>]
    IN  IF a.dry_run
        THEN [b EXCEPT !.dry_run_log = @ + 1, !.pc = "returned", !.result = TRUE]
        ELSE rest_next_attempt(b, 0)

\* the except branch (rest_adapter.py:430-433): log, then sleep
rest_except(a) == [a EXCEPT !.waits = Append(@, backoff(a.attempt)), !.pc = "sleep"]

\* one pass of the loop body of _send_with_retry (rest_adapter.py:415-433)
\* up to its return or its sleep
rest_request(a, resp) ==
    LET b == [a EXCEPT !.responses = Append(@, resp)]
    IN  IF resp.kind = "exception" THEN rest_except(b)
        ELSE IF resp.status < 400 THEN [b EXCEPT !.pc = "returned", !.result = TRUE]
        ELSE IF resp.status \in RetryableStatuses
        THEN [b EXCEPT !.waits = Append(@, backoff(a.attempt)), !.pc = "sleep"]
        ELSE IF resp.body_ok THEN [b EXCEPT !.pc = "returned", !.result = FALSE]
        ELSE rest_except(b)

\* ---- one adapter, its caller and its server

restRest == <<clockVars, worldVars, engineVars, event_engine, loop, noise_cache, aviation,
              nav, listener, threads, pursuit, ws, registry, run>>

\* a push or a batch flush calls _send
RestSend ==
    /\ outbound.pc \in {"idle", "returned"}
    /\ outbound.calls < MaxPushes
    /\ outbound' = rest_send(outbound)
    /\ UNCHANGED restRest

\* the request of the current attempt is answered, or raises
RestRequest ==
    /\ outbound.pc = "request"
    /\ \E resp \in Responses : outbound' = rest_request(outbound, resp)
    /\ UNCHANGED restRest

\* asyncio.sleep(wait) returns
RestWake ==
    /\ outbound.pc = "sleep"
    /\ outbound' = rest_next_attempt(outbound, outbound.attempt + 1)
    /\ UNCHANGED restRest

InitRest ==
    /\ ClockAtRest
    /\ WorldAtRest
    /\ EngineAtRest
    /\ event_engine = [run |-> 1, loop |-> 1]
    /\ loop = [pc |-> "top", sim_time |-> 0, pending |-> <<>>, tick_count |-> 0,
               max_ticks |-> MaxTicks]
    /\ noise_cache = [d \in {} |-> {}]
    /\ aviation = AviationSimulator
    /\ nav = NoNav
    /\ listener = NoCalls
    /\ threads = NoThreads
    /\ pursuit = NoPursuit
    /\ ws = [event_history |-> <<>>, trail_history |-> {}]
    /\ RegistryAtRest
    /\ run = [stop |-> FALSE, pc |-> "loop", i |-> 1, disconnected |-> <<>>]
    /\ \E dry_run \in BOOLEAN, max_retries \in 0..MaxRetries :
          outbound = RESTAdapter(dry_run, max_retries)

NextRest ==
    \/ RestSend
    \/ RestRequest
    \/ RestWake

SpecRest == InitRest /\ [][NextRest]_vars

\* the three kinds of answer the claim tells apart.  A response whose body
\* cannot be read raises inside the request block and counts as a request
\* exception.
Succeeded(resp) == resp.kind = "response" /\ resp.status < 400

Rejected(resp) ==
    /\ resp.kind = "response"
    /\ resp.status >= 400
    /\ resp.status \notin RetryableStatuses
    /\ resp.body_ok

ToRetry(resp) == ~Succeeded(resp) /\ ~Rejected(resp)

\* C40: _send_with_retry makes at most max_retries requests; it returns
\* true on the first response with status < 400, false at once on a
\* non-retryable status, sleeps 2^attempt seconds after a retryable status
\* or a request exception and then tries again, and returns false when
\* max_retries attempts have failed; an exception from a request is
\* followed by the sleep, never by the end of the call.
C40_RetryTerminates ==
    LET answers == outbound.responses
        n == Len(answers)
    IN  /\ n <= outbound.max_retries
        /\ \A i \in 1..n : answers[i].kind = "exception" => Len(outbound.waits) >= i
        /\ \A i \in 1..Len(outbound.waits) : outbound.waits[i] = 2 ^ (i - 1)
        /\ \A i \in 1..(n - 1) : ToRetry(answers[i])
        /\ outbound.pc = "request" =>
              /\ n = outbound.attempt
              /\ n < outbound.max_retries
              /\ Len(outbound.waits) = n
        /\ outbound.pc = "sleep" =>
              /\ n = outbound.attempt + 1
              /\ ToRetry(answers[n])
              /\ Len(outbound.waits) = n
        /\ (outbound.pc = "returned" /\ ~outbound.dry_run) =>
              IF outbound.result
              THEN n >= 1 /\ Succeeded(answers[n]) /\ Len(outbound.waits) = n - 1
              ELSE \/ n >= 1 /\ Rejected(answers[n]) /\ Len(outbound.waits) = n - 1
                   \/ /\ n = outbound.max_retries
                      /\ \A i \in 1..n : ToRetry(answers[i])
                      /\ Len(outbound.waits) = n
        /\ outbound.dry_run => n = 0 /\ (outbound.pc = "returned" => outbound.result)

\* three attempts failed, by an exception, a 503 and a 429, with sleeps of
\* 1, 2 and 4 seconds, and the call returned false
C40_Witness ==
    /\ outbound.pc = "returned"
    /\ ~outbound.result
    /\ outbound.max_retries = 3
    /\ Len(outbound.responses) = 3
    /\ outbound.responses[1].kind = "exception"
    /\ outbound.responses[2].status = 503
    /\ outbound.responses[3].status = 429
    /\ outbound.waits = <<1, 2, 4>>

====
